---------------------------- MODULE Spec2Model ----------------------------
(***************************************************************************)
(* Wildlife-aware navigation: the live navigation session of the           *)
(* useAnimalData hook (src/hooks/useAnimalData.ts), the geometry it uses   *)
(* (geoService, in src/App.tsx) and the routing / fetch layer (apiService, *)
(* in src/App.tsx).                                                        *)
(*                                                                         *)
(* Conventions of the model                                                *)
(*  - A nullable value is a sequence of length <= 1: None is <<>>, and     *)
(*    Some(x) is <<x>>.                                                    *)
(*  - Locations lie on one meridian; a location is its latitude measured   *)
(*    in km of arc, so that the great-circle distance of two locations is  *)
(*    the absolute difference of the two numbers.                          *)
(*  - Time is counted in minutes.                                          *)
(*  - One action is one task of the JavaScript event loop: the code that   *)
(*    runs from a callback's entry (or from the resumption of an await)    *)
(*    to the next await or to its return.  React applies the state         *)
(*    setters called in a task when the task is over and then runs the     *)
(*    mirror effects of lines 115-129 (ref.current = state), so inside a   *)
(*    task a mirrored ref holds the value the state had when the task      *)
(*    began: the unprimed variable.  Refs that the code writes directly    *)
(*    (closestPathIndexRef, isApproachingStartRef, watchIdRef, ...) are    *)
(*    variables of their own.                                              *)
(*  - The message texts shown to the user (routeMessage,                   *)
(*    predictionMessage) and the prediction list of the map view are not   *)
(*    part of the model.                                                   *)
(*                                                                         *)
(* Specifications                                                          *)
(*  - Spec: a navigation session (plan, start, fixes, weather answers,     *)
(*    signal loss, dismissals, stop) without emergency rerouting.          *)
(*  - SpecReroute: a navigation session with emergency rerouting.          *)
(*  - SpecSignal: a navigation session with signal loss and emergency      *)
(*    rerouting, without stop.                                             *)
(*  - SpecRestart: a navigation session with emergency rerouting that      *)
(*    may be started again while it runs, without stop.                    *)
(*  - SpecTrack: a navigation session on a route longer than the back      *)
(*    buffer of the path search.                                           *)
(*  - SpecAdvance: the same, with fixes that advance along the route.      *)
(*  - SpecPath: one call of getPathDataFromLocation.                       *)
(*  - SpecFetch: one call of fetchJson.                                    *)
(*  - SpecRoute: one call of getSafeNavigationRoute, with its fetchJson.   *)
(*  - SpecPlan: one call of calculateSafeRoute, request by request.        *)
(*  - SpecReplan: successive calls of calculateSafeRoute.                  *)
(*  - SpecSwap: the session on the long route, replaced on the way.        *)
(*  - SpecOverlap: calls of calculateSafeRoute that overlap.               *)
(*  - SpecCycle: one call of calculateSafeRoute beside the prediction      *)
(*    cycles of the map view.                                              *)
(* In the session specifications route planning appears as the single      *)
(* step RoutePlanned that publishes what a successful calculateSafeRoute   *)
(* call publishes.                                                         *)
(***************************************************************************)
EXTENDS Integers, Sequences, FiniteSets, TLC

----------------------------------------------------------------------------
(* Bounds of the model                                                     *)

\* highest latitude (km) of a position fix; fixes are drawn from 0..MaxPos
MaxPos == 2
\* position fixes delivered in one run
MaxFixes == 2
\* position handlers suspended at their weather fetch at the same time
MaxPending == 1
\* emergency reroute calls suspended at a route request at the same time
MaxEmerg == 1
\* navigation sessions started in one run
MaxStarts == 1
\* minutes the clock may advance in one run
MaxElapsed == 6
\* Number of points of the long route
TrackLen == 24
\* calls of calculateSafeRoute in one run
MaxPlans == 2
\* position fixes delivered in one run of the session with signal loss
MaxSignalFixes == 3
\* points of the longest stretch that leads away from the traveller
MaxDetour == 31
\* calls of startNavigation in one run of the session with restarts
MaxRestarts == 2
\* position fixes delivered in one run of the session with restarts
MaxRestartFixes == 1

----------------------------------------------------------------------------
(* Program constants *)

WEATHER_CHECK_INTERVAL_MIN == 5
ANIMAL_ALERT_THRESHOLD_KM == 2
\* APPROACHING_START_THRESHOLD_KM is 0.5: kept as tenths of a km
APPROACHING_START_THRESHOLD_KM10 == 5
INCREASING_THRESHOLD == 30
BACK_BUFFER == 20
\* stands for the Infinity that minDistance starts from
Infinity == 1000000

----------------------------------------------------------------------------
(* Nullable values *)

None == <<>>
Some(x) == <<x>>
IsSome(o) == Len(o) > 0
Val(o) == o[1]

Abs(x) == IF x < 0 THEN -x ELSE x
Max2(a, b) == IF a >= b THEN a ELSE b
Min2(a, b) == IF a <= b THEN a ELSE b

\* Math.round of the non-negative quotient a / b
RoundDiv(a, b) == (2 * a + b) \div (2 * b)


----------------------------------------------------------------------------
(* geoService *)

\* Haversine distance of two locations of the meridian, in km
calculateDistance(loc1, loc2) == Abs(loc2 - loc1)

\* The for loop of getPathDataFromLocation from index i on (indices count
\* from 0 as in the code; routePath[i + 1] is the code's routePath[i]).
RECURSIVE ScanPath(_, _, _, _, _, _)
ScanPath(userLocation, routePath, i, closestPointIndex, minDistance, increasingCount) ==
    IF i >= Len(routePath)
    THEN [closestPointIndex |-> closestPointIndex, minDistance |-> minDistance]
    ELSE LET distance == calculateDistance(userLocation, routePath[i + 1])
             closer == distance < minDistance
             closest2 == IF closer THEN i ELSE closestPointIndex
             min2 == IF closer THEN distance ELSE minDistance
             count2 == IF closer THEN 0 ELSE increasingCount + 1
         IN  IF count2 > INCREASING_THRESHOLD
             THEN [closestPointIndex |-> closest2, minDistance |-> min2]
             ELSE ScanPath(userLocation, routePath, i + 1, closest2, min2, count2)

\* Variant of getPathDataFromLocation: the search always starts at the
\* first point of the path
getPathDataFromLocationFromStart(userLocation, routePath, searchStartIndex) ==
    IF Len(routePath) < 2
    THEN [remainingPath |-> <<>>, distanceToPathKm |-> Infinity, closestPointIndex |-> 0]
    ELSE LET found == ScanPath(userLocation, routePath, 0, searchStartIndex, Infinity, 0)
         IN  [remainingPath |-> <<userLocation>> \o
                     SubSeq(routePath, found.closestPointIndex + 1, Len(routePath)),
              distanceToPathKm |-> found.minDistance,
              closestPointIndex |-> found.closestPointIndex]

getPathDataFromLocation(userLocation, routePath, searchStartIndex) ==
    IF Len(routePath) < 2
    THEN [remainingPath |-> <<>>, distanceToPathKm |-> Infinity, closestPointIndex |-> 0]
    ELSE LET searchFrom == Max2(0, searchStartIndex - BACK_BUFFER)
             found == ScanPath(userLocation, routePath, searchFrom,
                               searchStartIndex, Infinity, 0)
         IN  [remainingPath |-> <<userLocation>> \o
                     SubSeq(routePath, found.closestPointIndex + 1, Len(routePath)),
              distanceToPathKm |-> found.minDistance,
              closestPointIndex |-> found.closestPointIndex]

\* The forEach of findClosestSafePlace over places[i..]
RECURSIVE ScanPlaces(_, _, _, _, _)
ScanPlaces(userLocation, places, i, closestPlace, minDistance) ==
    IF i > Len(places) THEN closestPlace
    ELSE LET distance == calculateDistance(userLocation, places[i].lat)
         IN  IF distance < minDistance
             THEN ScanPlaces(userLocation, places, i + 1, Some(places[i]), distance)
             ELSE ScanPlaces(userLocation, places, i + 1, closestPlace, minDistance)

\* Variant of findClosestSafePlace: the first place of the list
findFirstSafePlace(userLocation, places) ==
    IF Len(places) = 0 THEN None ELSE Some(places[1])

findClosestSafePlace(userLocation, places) ==
    IF Len(places) = 0 THEN None
    ELSE ScanPlaces(userLocation, places, 1, None, Infinity)

----------------------------------------------------------------------------
(* Routes *)

\* The points lo, lo + 1, ..., hi or hi, hi - 1, ..., lo
StraightPath(from, to) ==
    IF from <= to
    THEN [i \in 1..(to - from + 1) |-> from + i - 1]
    ELSE [i \in 1..(from - to + 1) |-> from - i + 1]

\* The Route that _fetchValhallaRoute builds from the routing service's
\* answer for a trip along the meridian: one path point per km (two equal
\* points when start and end coincide), the length in km, one minute per km.
ValhallaRoute(start, end, mode) ==
    [path |-> IF start = end THEN <<start, end>> ELSE StraightPath(start, end),
     distanceKm |-> Abs(end - start),
     durationMinutes |-> Abs(end - start),
     start |-> start, end |-> end, mode |-> mode, isHighRisk |-> FALSE]

----------------------------------------------------------------------------
(* Weather *)

isWeatherSevere(code) ==
    code \in {63, 65, 66, 67, 73, 75, 77, 81, 82, 85, 86, 95, 96, 99}

getWeatherAlertText(code) ==
    IF code \in {63, 65, 81, 82} THEN "Heavy rain"
    ELSE IF code \in {73, 75, 85, 86, 77} THEN "Heavy snow"
    ELSE IF code \in {66, 67} THEN "Freezing rain"
    ELSE IF code \in {95, 96, 99} THEN "Thunderstorms"
    ELSE "Severe weather"

\* What api.getWeatherData may resolve to: null (the request failed or had
\* no current_weather), a calm code, or a severe code
WeatherAnswers == {None, Some(0), Some(95)}

----------------------------------------------------------------------------
(* State of the hook *)

VARIABLES
    \* React state of the live navigation
    isNavigating, liveLocation, navigationStats, navigationAlert, weatherAlert,
    animalsNearRoute, closestPathIndex, isApproachingStart, emergencyRoute,
    alternativeEmergencyRoute,
    \* React state of route planning
    safeRoute, alternativeRoute, safePlaces, routeStatus,
    \* refs written directly by the code
    isApproachingStartRef, watchIdRef, lastWeatherCheckTimestampRef,
    closestPathIndexRef, initialRouteSnapshotRef, shownAnimalAlertsRef,
    \* the environment: the watches registered with navigator.geolocation,
    \* and Date.now() in minutes
    watches, now,
    \* position handlers suspended at `await api.getWeatherData` (line 578):
    \* records [loc, seq, session], seq the delivery number of the fix and
    \* session "live", "stopped" (stopNavigation ran since) or "replaced"
    \* (startNavigation replaced the watch since)
    pending,
    \* number of fixes delivered so far
    fixSeq,
    \* calls of calculateRouteToNearestSafePlace suspended at one of their
    \* two route requests
    emerg,
    \* number of startNavigation calls that created a watch so far
    starts,
    \* history, read by no operation: the last operation performed, and per
    \* hazard id the hazard alerts raised since the last start or stop
    lastOp, hazardAlertsRaised

navVars == <<isNavigating, liveLocation, navigationStats, navigationAlert,
             weatherAlert, animalsNearRoute, closestPathIndex,
             isApproachingStart, emergencyRoute, alternativeEmergencyRoute,
             safeRoute, alternativeRoute, safePlaces, routeStatus,
             isApproachingStartRef, watchIdRef, lastWeatherCheckTimestampRef,
             closestPathIndexRef, initialRouteSnapshotRef,
             shownAnimalAlertsRef, watches, now, pending, fixSeq, emerg,
             starts, lastOp, hazardAlertsRaised>>

VARIABLES
    \* the fetchJson call under way: [pc, i, delay, lastError], pc being
    \* "idle", "fetch" (awaiting fetch(url)), "backoff" (awaiting the
    \* timer) or "settled"
    fetchJsonCall,
    \* what the call returned or threw, once settled
    fetchResult,
    \* history: the outcomes of the requests sent, and the delays waited
    fetchLog, fetchWaits

fetchVars == <<fetchJsonCall, fetchResult, fetchLog, fetchWaits>>

VARIABLES
    \* the calculateSafeRoute calls: each a record of the call's arguments
    \* and locals and of the await it is suspended at (pc)
    plans,
    \* the mode probes of lines 388-404 whose route request is in flight:
    \* [mode, call], call being the calculateSafeRoute call that started it
    probes,
    \* the ref of line 95 and the state of line 97
    isPredictingRef, otherModesInfo

planVars == <<plans, probes, isPredictingRef, otherModesInfo>>

VARIABLES
    \* the getSafeNavigationRoute call under way: [pc, start, end, mode,
    \* result], pc being "idle", "fetching" (awaiting fetchJson, line 819)
    \* or "settled", and result what the call returned or threw
    routeCall

routeVars == <<routeCall>>

VARIABLES
    \* the getPathDataFromLocation call under way: its arguments and, once
    \* it has returned, its result
    pathCall

geoVars == <<pathCall>>

otherVars == <<fetchVars, planVars, routeVars, geoVars>>

\* The state and refs of the hook, without the environment and the history
navigationSessionVars ==
    <<isNavigating, liveLocation, navigationStats, navigationAlert,
      weatherAlert, animalsNearRoute, closestPathIndex, isApproachingStart,
      emergencyRoute, alternativeEmergencyRoute, safeRoute, alternativeRoute,
      safePlaces, routeStatus, isApproachingStartRef, watchIdRef,
      lastWeatherCheckTimestampRef, closestPathIndexRef,
      initialRouteSnapshotRef, shownAnimalAlertsRef, watches>>

vars == <<navVars, fetchVars, planVars, routeVars, geoVars>>

\* The mirror refs of lines 115-129: at the start of a task each holds the
\* state as of the last render
navigationAlertRef == navigationAlert
weatherAlertRef == weatherAlert
liveLocationRef == liveLocation
safeRouteRef == safeRoute
emergencyRouteRef == emergencyRoute
animalsNearRouteRef == animalsNearRoute

\* The minute Date.now() shows when the hook is mounted: far more than the
\* weather interval after the epoch
StartTime == 2 * WEATHER_CHECK_INTERVAL_MIN

FixLocs == 0..MaxPos
WatchIds == {1, 2}

AnimalIds == {1, 2}

Alert(kind, animalId) == [kind |-> kind, animal |-> animalId]
SIGNAL_LOST == Alert("Live location signal lost", 0)
NAVIGATION_BEGUN == Alert("Navigation has begun", 0)
REROUTING == Alert("Rerouting to nearest safe place", 0)
HazardAlert(animal) == Alert("detected near your path", animal.id)

NavInit ==
    /\ isNavigating = FALSE
    /\ liveLocation = None
    /\ navigationStats = None
    /\ navigationAlert = None
    /\ weatherAlert = None
    /\ animalsNearRoute = <<>>
    /\ closestPathIndex = 0
    /\ isApproachingStart = FALSE
    /\ emergencyRoute = None
    /\ alternativeEmergencyRoute = None
    /\ safeRoute = None
    /\ alternativeRoute = None
    /\ safePlaces = <<>>
    /\ routeStatus = "idle"
    /\ isApproachingStartRef = FALSE
    /\ watchIdRef = None
    /\ lastWeatherCheckTimestampRef = 0
    /\ closestPathIndexRef = 0
    /\ initialRouteSnapshotRef = None
    /\ shownAnimalAlertsRef = {}
    /\ watches = {}
    /\ now = StartTime
    /\ pending = {}
    /\ fixSeq = 0
    /\ emerg = {}
    /\ starts = 0
    /\ lastOp = "mount"
    /\ hazardAlertsRaised = [id \in AnimalIds |-> 0]

----------------------------------------------------------------------------
(* Outcome of route planning, as the session sees it *)

\* The hazards and safe places a planning request may publish with its route
Animal(id, lat) == [id |-> id, current |-> lat]
Place(id, lat) == [id |-> id, lat |-> lat]
PlanOutcomes ==
    {[animals |-> <<>>, places |-> <<>>],
     [animals |-> <<Animal(1, 3), Animal(2, 4)>>,
      places |-> <<Place(1, 0), Place(2, 3)>>]}
PlannedRoute == ValhallaRoute(1, 2, "car")
TrackRoute == ValhallaRoute(1, TrackLen, "car")

\* A calculateSafeRoute call that succeeded: what lines 372-384 publish.
\* With hazards the avoiding route is primary and the direct route is the
\* flagged alternative; without, there is no alternative.
RoutePublishedAs(route, outcomes) ==
    /\ \E plan \in outcomes :
          /\ safeRoute' = Some(route)
          /\ alternativeRoute' =
                IF plan.animals = <<>> THEN None
                ELSE Some([route EXCEPT !.isHighRisk = TRUE])
          /\ safePlaces' = plan.places
          /\ animalsNearRoute' = plan.animals
    /\ routeStatus' = "success"
    /\ UNCHANGED <<isNavigating, liveLocation, navigationStats, navigationAlert,
                   weatherAlert, closestPathIndex, isApproachingStart,
                   emergencyRoute, alternativeEmergencyRoute,
                   isApproachingStartRef, watchIdRef,
                   lastWeatherCheckTimestampRef, closestPathIndexRef,
                   initialRouteSnapshotRef, shownAnimalAlertsRef, watches, now,
                   pending, fixSeq, emerg, starts, hazardAlertsRaised>>
    /\ lastOp' = "calculateSafeRoute"
    /\ UNCHANGED otherVars

\* The call ends before navigation is started
RoutePlannedAs(route, outcomes) == ~isNavigating /\ RoutePublishedAs(route, outcomes)

RoutePlanned == RoutePlannedAs(PlannedRoute, PlanOutcomes)

\* A call ends while navigation is running: the short route replaces the
\* route of the session
RouteReplaced ==
    /\ isNavigating
    /\ IsSome(safeRoute) /\ Val(safeRoute) # PlannedRoute
    /\ RoutePublishedAs(PlannedRoute, {[animals |-> <<>>, places |-> <<>>]})

\* The same on a long route without hazards, where the matched index can
\* travel further than the back buffer of the path search
TrackPlanned == RoutePlannedAs(TrackRoute, {[animals |-> <<>>, places |-> <<>>]})

----------------------------------------------------------------------------
(* stopNavigation and startNavigation *)

\* The suspended handlers and reroute calls, marked as those of a session
\* that has ended (history only: the code keeps no such mark)
Ended(set, how) ==
    {[x EXCEPT !.session = IF @ = "live" THEN how ELSE @] : x \in set}

\* Variant of StopNavigation: the set of hazards already alerted for is
\* kept
StopNavigationKeepingShown ==
    /\ watches' = IF IsSome(watchIdRef) THEN watches \ {Val(watchIdRef)} ELSE watches
    /\ watchIdRef' = None
    /\ isNavigating' = FALSE
    /\ closestPathIndex' = 0
    /\ liveLocation' = None
    /\ navigationStats' = None
    /\ navigationAlert' = None
    /\ weatherAlert' = None
    /\ safeRoute' = None
    /\ alternativeRoute' = None
    /\ safePlaces' = <<>>
    /\ animalsNearRoute' = <<>>
    /\ emergencyRoute' = None
    /\ alternativeEmergencyRoute' = None
    /\ isApproachingStart' = FALSE
    /\ closestPathIndexRef' = 0
    /\ isApproachingStartRef' = FALSE
    /\ initialRouteSnapshotRef' = None
    /\ pending' = Ended(pending, "stopped")
    /\ emerg' = Ended(emerg, "stopped")
    /\ UNCHANGED <<routeStatus, lastWeatherCheckTimestampRef, now, fixSeq, starts,
                   shownAnimalAlertsRef>>
    /\ hazardAlertsRaised' = [id \in AnimalIds |-> 0]
    /\ lastOp' = IF lastOp \in {"stopNavigation", "stopNavigation again"}
                 THEN "stopNavigation again" ELSE "stopNavigation"
    /\ UNCHANGED otherVars

StopNavigation ==
    /\ watches' = IF IsSome(watchIdRef) THEN watches \ {Val(watchIdRef)} ELSE watches
    /\ watchIdRef' = None
    /\ isNavigating' = FALSE
    /\ closestPathIndex' = 0
    /\ liveLocation' = None
    /\ navigationStats' = None
    /\ navigationAlert' = None
    /\ weatherAlert' = None
    /\ safeRoute' = None
    /\ alternativeRoute' = None
    /\ safePlaces' = <<>>
    /\ animalsNearRoute' = <<>>
    /\ emergencyRoute' = None
    /\ alternativeEmergencyRoute' = None
    /\ isApproachingStart' = FALSE
    /\ closestPathIndexRef' = 0
    /\ isApproachingStartRef' = FALSE
    /\ initialRouteSnapshotRef' = None
    /\ shownAnimalAlertsRef' = {}
    /\ pending' = Ended(pending, "stopped")
    /\ emerg' = Ended(emerg, "stopped")
    /\ UNCHANGED <<routeStatus, lastWeatherCheckTimestampRef, now, fixSeq, starts>>
    /\ hazardAlertsRaised' = [id \in AnimalIds |-> 0]
    /\ lastOp' = IF lastOp \in {"stopNavigation", "stopNavigation again"}
                 THEN "stopNavigation again" ELSE "stopNavigation"
    /\ UNCHANGED otherVars

\* The routes the user interface offers to start: the planned route, and
\* the alternative emergency route while the banner shows the reroute alert
StartableRoutes ==
    {Val(r) : r \in {x \in {safeRoute} \cup
                             (IF navigationAlert = Some(REROUTING)
                              THEN {alternativeEmergencyRoute} ELSE {}) :
                        IsSome(x)}}

\* Variant of StartNavigationUpTo: the watch registered before is not
\* cleared
StartNavigationKeepingWatch(calls) ==
    \E routeToNavigate \in StartableRoutes :
        /\ shownAnimalAlertsRef' = {}
        /\ closestPathIndex' = 0
        /\ closestPathIndexRef' = 0
        /\ emergencyRoute' = None
        /\ alternativeEmergencyRoute' = None
        /\ safeRoute' = Some(routeToNavigate)
        /\ initialRouteSnapshotRef' =
              Some([start |-> routeToNavigate.start, end |-> routeToNavigate.end,
                    mode |-> routeToNavigate.mode,
                    distanceKm |-> routeToNavigate.distanceKm,
                    durationMinutes |-> routeToNavigate.durationMinutes])
        /\ isNavigating' = TRUE
        /\ navigationAlert' = None
        /\ weatherAlert' = None
        /\ LET cleared == watches
               id == CHOOSE i \in WatchIds : i \notin cleared
           IN  /\ watches' = cleared \cup {id}
               /\ watchIdRef' = Some(id)
        /\ starts < calls
        /\ starts' = starts + 1
        /\ pending' = Ended(pending, "replaced")
        /\ emerg' = Ended(emerg, "replaced")
        /\ UNCHANGED <<liveLocation, navigationStats, animalsNearRoute,
                       isApproachingStart, alternativeRoute, safePlaces,
                       routeStatus, isApproachingStartRef,
                       lastWeatherCheckTimestampRef, now, fixSeq>>
        /\ hazardAlertsRaised' = [id \in AnimalIds |-> 0]
        /\ lastOp' = "startNavigation"
        /\ UNCHANGED otherVars

StartNavigationUpTo(calls) ==
    \E routeToNavigate \in StartableRoutes :
        /\ shownAnimalAlertsRef' = {}
        /\ closestPathIndex' = 0
        /\ closestPathIndexRef' = 0
        /\ emergencyRoute' = None
        /\ alternativeEmergencyRoute' = None
        /\ safeRoute' = Some(routeToNavigate)
        /\ initialRouteSnapshotRef' =
              Some([start |-> routeToNavigate.start, end |-> routeToNavigate.end,
                    mode |-> routeToNavigate.mode,
                    distanceKm |-> routeToNavigate.distanceKm,
                    durationMinutes |-> routeToNavigate.durationMinutes])
        /\ isNavigating' = TRUE
        /\ navigationAlert' = None
        /\ weatherAlert' = None
        /\ LET cleared == IF IsSome(watchIdRef) THEN watches \ {Val(watchIdRef)}
                          ELSE watches
               id == CHOOSE i \in WatchIds : i \notin cleared
           IN  /\ watches' = cleared \cup {id}
               /\ watchIdRef' = Some(id)
        /\ starts < calls
        /\ starts' = starts + 1
        /\ pending' = Ended(pending, "replaced")
        /\ emerg' = Ended(emerg, "replaced")
        /\ UNCHANGED <<liveLocation, navigationStats, animalsNearRoute,
                       isApproachingStart, alternativeRoute, safePlaces,
                       routeStatus, isApproachingStartRef,
                       lastWeatherCheckTimestampRef, now, fixSeq>>
        /\ hazardAlertsRaised' = [id \in AnimalIds |-> 0]
        /\ lastOp' = "startNavigation"
        /\ UNCHANGED otherVars

StartNavigation == StartNavigationUpTo(MaxStarts)

\* A start of the session that may be started again while it runs
Restart == StartNavigationUpTo(MaxRestarts)

\* startNavigation is called with a route that lacks its start or its end
\* (lines 531-535)
StartNavigationWithoutRoute ==
    /\ routeStatus' = "error"
    /\ UNCHANGED <<isNavigating, liveLocation, navigationStats, navigationAlert,
                   weatherAlert, animalsNearRoute, closestPathIndex,
                   isApproachingStart, emergencyRoute, alternativeEmergencyRoute,
                   safeRoute, alternativeRoute, safePlaces,
                   isApproachingStartRef, watchIdRef,
                   lastWeatherCheckTimestampRef, closestPathIndexRef,
                   initialRouteSnapshotRef, shownAnimalAlertsRef, watches, now,
                   pending, fixSeq, emerg, starts, hazardAlertsRaised>>
    /\ lastOp' = "startNavigation without route"
    /\ UNCHANGED otherVars

\* Time passes
Tick ==
    /\ \E d \in {WEATHER_CHECK_INTERVAL_MIN, WEATHER_CHECK_INTERVAL_MIN + 1} :
          /\ now + d <= StartTime + MaxElapsed
          /\ now' = now + d
    /\ UNCHANGED <<isNavigating, liveLocation, navigationStats, navigationAlert,
                   weatherAlert, animalsNearRoute, closestPathIndex,
                   isApproachingStart, emergencyRoute, alternativeEmergencyRoute,
                   safeRoute, alternativeRoute, safePlaces, routeStatus,
                   isApproachingStartRef, watchIdRef,
                   lastWeatherCheckTimestampRef, closestPathIndexRef,
                   initialRouteSnapshotRef, shownAnimalAlertsRef, watches,
                   pending, fixSeq, emerg, starts, hazardAlertsRaised, lastOp>>
    /\ UNCHANGED otherVars

----------------------------------------------------------------------------
(* The position handler of startNavigation (lines 562-665) *)

\* Lines 651-662: the stats of a fix matched to index newClosestPointIndex
\* of activeRoute; remainingKm is kept in tenths of a km (toFixed(1))
ProgressStats(activeRoute, newClosestPointIndex) ==
    LET totalPathPoints == Len(activeRoute.path)
        \* progressRatio = num / den
        num == IF totalPathPoints > 1 THEN newClosestPointIndex ELSE 0
        den == IF totalPathPoints > 1 THEN totalPathPoints - 1 ELSE 1
    IN  [remainingKm10 |-> RoundDiv(10 * activeRoute.distanceKm * (den - num), den),
         etaMinutes |-> RoundDiv(activeRoute.durationMinutes * (den - num), den),
         progressPercent |-> Max2(0, Min2(100, RoundDiv(100 * num, den)))]

\* Variant of HazardToAlert: the set of hazards already alerted for is not
\* consulted
HazardToAlertUnsuppressed(currentLiveLocation) ==
    LET nearbyAnimals == animalsNearRouteRef
        qualifying == {i \in 1..Len(nearbyAnimals) :
                         calculateDistance(currentLiveLocation, nearbyAnimals[i].current)
                             <= ANIMAL_ALERT_THRESHOLD_KM}
    IN  IF qualifying # {} /\ navigationAlertRef = None
        THEN Some(nearbyAnimals[CHOOSE i \in qualifying : \A j \in qualifying : i <= j])
        ELSE None

\* Variant of HazardToAlert: an active navigation alert does not hold the
\* hazard alert back
HazardToAlertWhileActive(currentLiveLocation) ==
    LET nearbyAnimals == animalsNearRouteRef
        qualifying == {i \in 1..Len(nearbyAnimals) :
                         /\ calculateDistance(currentLiveLocation, nearbyAnimals[i].current)
                               <= ANIMAL_ALERT_THRESHOLD_KM
                         /\ nearbyAnimals[i].id \notin shownAnimalAlertsRef}
    IN  IF qualifying # {}
        THEN Some(nearbyAnimals[CHOOSE i \in qualifying : \A j \in qualifying : i <= j])
        ELSE None

\* Lines 593-610: the hazard the loop alerts for, if any: the first animal
\* of the list within the threshold and not yet shown, and only when
\* navigationAlertRef holds no alert
HazardToAlert(currentLiveLocation) ==
    LET nearbyAnimals == animalsNearRouteRef
        qualifying == {i \in 1..Len(nearbyAnimals) :
                         /\ calculateDistance(currentLiveLocation, nearbyAnimals[i].current)
                               <= ANIMAL_ALERT_THRESHOLD_KM
                         /\ nearbyAnimals[i].id \notin shownAnimalAlertsRef}
    IN  IF qualifying # {} /\ navigationAlertRef = None
        THEN Some(nearbyAnimals[CHOOSE i \in qualifying : \A j \in qualifying : i <= j])
        ELSE None

\* Lines 589-665: the handler from the hazard check to its end, for a
\* handler that has so far set the navigation alert to alertSoFar.
\* Assigns every variable that part of the handler can write.
HandlerRest(currentLiveLocation, alertSoFar) ==
    LET hazard == HazardToAlert(currentLiveLocation)
        alert1 == IF IsSome(hazard) THEN Some(HazardAlert(Val(hazard))) ELSE alertSoFar
        activeRoute == IF IsSome(emergencyRouteRef) THEN emergencyRouteRef ELSE safeRouteRef
    IN  /\ shownAnimalAlertsRef' =
              IF IsSome(hazard) THEN shownAnimalAlertsRef \cup {Val(hazard).id}
              ELSE shownAnimalAlertsRef
        /\ hazardAlertsRaised' =
              IF IsSome(hazard)
              THEN [hazardAlertsRaised EXCEPT ![Val(hazard).id] = @ + 1]
              ELSE hazardAlertsRaised
        /\ IF ~IsSome(activeRoute)
           THEN /\ navigationAlert' = alert1
                /\ UNCHANGED <<navigationStats, closestPathIndex, closestPathIndexRef,
                               isApproachingStart, isApproachingStartRef>>
           ELSE LET route == Val(activeRoute)
                    newClosestPointIndex ==
                        getPathDataFromLocation(currentLiveLocation, route.path,
                                                closestPathIndexRef).closestPointIndex
                    distanceToStart == calculateDistance(currentLiveLocation, route.start)
                    wasApproaching == isApproachingStartRef
                    isNowApproaching ==
                        /\ ~IsSome(emergencyRouteRef)
                        /\ newClosestPointIndex = 0
                        /\ 10 * distanceToStart > APPROACHING_START_THRESHOLD_KM10
                IN  IF isNowApproaching
                    THEN /\ isApproachingStartRef' = TRUE
                         /\ isApproachingStart' =
                               IF wasApproaching THEN isApproachingStart ELSE TRUE
                         /\ navigationStats' =
                               Some([remainingKm10 |->
                                        10 * (IF IsSome(initialRouteSnapshotRef)
                                              THEN Val(initialRouteSnapshotRef).distanceKm
                                              ELSE route.distanceKm),
                                     etaMinutes |->
                                        IF IsSome(initialRouteSnapshotRef)
                                        THEN Val(initialRouteSnapshotRef).durationMinutes
                                        ELSE route.durationMinutes,
                                     progressPercent |-> 0])
                         /\ navigationAlert' = alert1
                         /\ UNCHANGED <<closestPathIndex, closestPathIndexRef>>
                    ELSE /\ isApproachingStartRef' = FALSE
                         /\ isApproachingStart' =
                               IF wasApproaching THEN FALSE ELSE isApproachingStart
                         /\ navigationAlert' =
                               IF wasApproaching THEN Some(NAVIGATION_BEGUN) ELSE alert1
                         /\ closestPathIndexRef' = newClosestPointIndex
                         /\ closestPathIndex' = newClosestPointIndex
                         /\ navigationStats' = Some(ProgressStats(route, newClosestPointIndex))

\* Variant of AfterSignalLostClear: the handler clears whatever alert is
\* showing
AfterAnyAlertClear == None

\* Lines 563-565: the navigation alert after the handler's first statement
AfterSignalLostClear ==
    IF IsSome(navigationAlertRef) /\ Val(navigationAlertRef) = SIGNAL_LOST
    THEN None ELSE navigationAlert

\* A fix arrives and its handler runs to its end, or to the await of the
\* weather request when the weather check is due
PositionFixUpTo(locations, fixes) ==
    \E currentLiveLocation \in locations :
        /\ watches # {}
        /\ fixSeq < fixes
        /\ fixSeq' = fixSeq + 1
        /\ liveLocation' = Some(currentLiveLocation)
        /\ IF now - lastWeatherCheckTimestampRef > WEATHER_CHECK_INTERVAL_MIN
           THEN /\ Cardinality(pending) < MaxPending
                /\ lastWeatherCheckTimestampRef' = now
                /\ pending' = pending \cup
                      {[loc |-> currentLiveLocation, seq |-> fixSeq + 1,
                        session |-> "live"]}
                /\ navigationAlert' = AfterSignalLostClear
                /\ UNCHANGED <<navigationStats, closestPathIndex, closestPathIndexRef,
                               isApproachingStart, isApproachingStartRef,
                               shownAnimalAlertsRef, weatherAlert,
                               hazardAlertsRaised>>
           ELSE /\ HandlerRest(currentLiveLocation, AfterSignalLostClear)
                /\ UNCHANGED <<lastWeatherCheckTimestampRef, pending, weatherAlert>>
        /\ UNCHANGED <<isNavigating, animalsNearRoute, emergencyRoute,
                       alternativeEmergencyRoute, safeRoute, alternativeRoute,
                       safePlaces, routeStatus, watchIdRef,
                       initialRouteSnapshotRef, watches, now, emerg, starts>>
        /\ lastOp' = "position fix"
        /\ UNCHANGED otherVars

PositionFixAt(locations) == PositionFixUpTo(locations, MaxFixes)

PositionFix == PositionFixAt(FixLocs)

\* Fixes of the session that is started again while it runs
RestartFix == PositionFixUpTo(FixLocs, MaxRestartFixes)

\* Fixes of the session with signal loss
SignalFix == PositionFixUpTo(FixLocs, MaxSignalFixes)

\* Fixes along the long route: before its start, at its start, midway and
\* at its end
TrackFix == PositionFixAt({0, 1, TrackLen \div 2, TrackLen})

\* Fixes that advance along the long route: none lies behind the fix
\* delivered before it
AdvancingFix ==
    PositionFixAt({l \in {0, 1, TrackLen \div 2, TrackLen} :
                      IsSome(liveLocation) => l >= Val(liveLocation)})

\* Variant of WeatherArrivesWith: a handler whose weather request failed
\* ends there
WeatherArrivesEndingOnFailure(answers) ==
    \E h \in pending, weatherData \in answers :
        /\ pending' = pending \ {h}
        /\ weatherAlert' =
              IF IsSome(weatherData) /\ isWeatherSevere(Val(weatherData))
              THEN Some(getWeatherAlertText(Val(weatherData)))
              ELSE IF IsSome(weatherData) /\ IsSome(weatherAlertRef)
              THEN None
              ELSE weatherAlert
        /\ IF IsSome(weatherData)
           THEN HandlerRest(h.loc, navigationAlert)
           ELSE UNCHANGED <<navigationAlert, navigationStats, closestPathIndex,
                            closestPathIndexRef, isApproachingStart,
                            isApproachingStartRef, shownAnimalAlertsRef,
                            hazardAlertsRaised>>
        /\ UNCHANGED <<isNavigating, liveLocation, animalsNearRoute, emergencyRoute,
                       alternativeEmergencyRoute, safeRoute, alternativeRoute,
                       safePlaces, routeStatus, watchIdRef,
                       lastWeatherCheckTimestampRef, initialRouteSnapshotRef,
                       watches, now, fixSeq, emerg, starts>>
        /\ lastOp' = "weather arrives"
        /\ UNCHANGED otherVars

\* The weather request of a suspended handler completes and the handler
\* runs to its end (lines 579-665)
WeatherArrivesWith(answers) ==
    \E h \in pending, weatherData \in answers :
        /\ pending' = pending \ {h}
        /\ weatherAlert' =
              IF IsSome(weatherData) /\ isWeatherSevere(Val(weatherData))
              THEN Some(getWeatherAlertText(Val(weatherData)))
              ELSE IF IsSome(weatherData) /\ IsSome(weatherAlertRef)
              THEN None
              ELSE weatherAlert
        /\ HandlerRest(h.loc, navigationAlert)
        /\ UNCHANGED <<isNavigating, liveLocation, animalsNearRoute, emergencyRoute,
                       alternativeEmergencyRoute, safeRoute, alternativeRoute,
                       safePlaces, routeStatus, watchIdRef,
                       lastWeatherCheckTimestampRef, initialRouteSnapshotRef,
                       watches, now, fixSeq, emerg, starts>>
        /\ lastOp' = "weather arrives"
        /\ UNCHANGED otherVars

WeatherArrives == WeatherArrivesWith(WeatherAnswers)

\* The error callback of the watch (lines 666-669)
PositionError ==
    /\ watches # {}
    /\ navigationAlert' = Some(SIGNAL_LOST)
    /\ UNCHANGED <<isNavigating, liveLocation, navigationStats, weatherAlert,
                   animalsNearRoute, closestPathIndex, isApproachingStart,
                   emergencyRoute, alternativeEmergencyRoute, safeRoute,
                   alternativeRoute, safePlaces, routeStatus,
                   isApproachingStartRef, watchIdRef,
                   lastWeatherCheckTimestampRef, closestPathIndexRef,
                   initialRouteSnapshotRef, shownAnimalAlertsRef, watches, now,
                   pending, fixSeq, emerg, starts, hazardAlertsRaised>>
    /\ lastOp' = "position error"
    /\ UNCHANGED otherVars

\* The user closes the alert banner (clearNavigationAlert, lines 496-498)
ClearNavigationAlert ==
    /\ IsSome(navigationAlert)
    /\ navigationAlert' = None
    /\ UNCHANGED <<isNavigating, liveLocation, navigationStats, weatherAlert,
                   animalsNearRoute, closestPathIndex, isApproachingStart,
                   emergencyRoute, alternativeEmergencyRoute, safeRoute,
                   alternativeRoute, safePlaces, routeStatus,
                   isApproachingStartRef, watchIdRef,
                   lastWeatherCheckTimestampRef, closestPathIndexRef,
                   initialRouteSnapshotRef, shownAnimalAlertsRef, watches, now,
                   pending, fixSeq, emerg, starts, hazardAlertsRaised>>
    /\ lastOp' = "clearNavigationAlert"
    /\ UNCHANGED otherVars

\* The user closes the weather banner (clearWeatherAlert, line 500)
ClearWeatherAlert ==
    /\ IsSome(weatherAlert)
    /\ weatherAlert' = None
    /\ UNCHANGED <<isNavigating, liveLocation, navigationStats, navigationAlert,
                   animalsNearRoute, closestPathIndex, isApproachingStart,
                   emergencyRoute, alternativeEmergencyRoute, safeRoute,
                   alternativeRoute, safePlaces, routeStatus,
                   isApproachingStartRef, watchIdRef,
                   lastWeatherCheckTimestampRef, closestPathIndexRef,
                   initialRouteSnapshotRef, shownAnimalAlertsRef, watches, now,
                   pending, fixSeq, emerg, starts, hazardAlertsRaised>>
    /\ lastOp' = "clearWeatherAlert"
    /\ UNCHANGED otherVars

----------------------------------------------------------------------------
(* calculateRouteToNearestSafePlace (lines 674-720) *)

\* What api.getSafeNavigationRoute may do with a request: return a route,
\* return null (no route, or an implausible one), or throw
RouteOutcomes == {"route", "null", "throws"}

\* Variant of EmergencyRequest: a call without live position or safe places
\* returns without setting the error status
EmergencyRequestWithoutError ==
    /\ isNavigating
    /\ LET currentLiveLocation == liveLocationRef
       IN  IF ~IsSome(currentLiveLocation) \/ Len(safePlaces) = 0
           THEN /\ UNCHANGED routeStatus
                /\ UNCHANGED emerg
           ELSE LET closestPlace ==
                        findClosestSafePlace(Val(currentLiveLocation), safePlaces)
                IN  IF ~IsSome(closestPlace)
                    THEN /\ routeStatus' = "error"
                         /\ UNCHANGED emerg
                    ELSE /\ Cardinality(emerg) < MaxEmerg
                         /\ routeStatus' = "loading"
                         /\ emerg' = emerg \cup
                               {[phase |-> 1, loc |-> Val(currentLiveLocation),
                                 place |-> Val(closestPlace), start |-> None,
                                 session |-> "live"]}
    /\ UNCHANGED <<isNavigating, liveLocation, navigationStats, navigationAlert,
                   weatherAlert, animalsNearRoute, closestPathIndex,
                   isApproachingStart, emergencyRoute, alternativeEmergencyRoute,
                   safeRoute, alternativeRoute, safePlaces,
                   isApproachingStartRef, watchIdRef,
                   lastWeatherCheckTimestampRef, closestPathIndexRef,
                   initialRouteSnapshotRef, shownAnimalAlertsRef, watches, now,
                   pending, fixSeq, starts, hazardAlertsRaised>>
    /\ lastOp' = "calculateRouteToNearestSafePlace"
    /\ UNCHANGED otherVars

\* The call up to its first route request (lines 675-695).  The user
\* interface offers it while a session is navigating.
EmergencyRequest ==
    /\ isNavigating
    /\ LET currentLiveLocation == liveLocationRef
       IN  IF ~IsSome(currentLiveLocation) \/ Len(safePlaces) = 0
           THEN /\ routeStatus' = "error"
                /\ UNCHANGED emerg
           ELSE LET closestPlace ==
                        findClosestSafePlace(Val(currentLiveLocation), safePlaces)
                IN  IF ~IsSome(closestPlace)
                    THEN /\ routeStatus' = "error"
                         /\ UNCHANGED emerg
                    ELSE /\ Cardinality(emerg) < MaxEmerg
                         /\ routeStatus' = "loading"
                         /\ emerg' = emerg \cup
                               {[phase |-> 1, loc |-> Val(currentLiveLocation),
                                 place |-> Val(closestPlace), start |-> None,
                                 session |-> "live"]}
    /\ UNCHANGED <<isNavigating, liveLocation, navigationStats, navigationAlert,
                   weatherAlert, animalsNearRoute, closestPathIndex,
                   isApproachingStart, emergencyRoute, alternativeEmergencyRoute,
                   safeRoute, alternativeRoute, safePlaces,
                   isApproachingStartRef, watchIdRef,
                   lastWeatherCheckTimestampRef, closestPathIndexRef,
                   initialRouteSnapshotRef, shownAnimalAlertsRef, watches, now,
                   pending, fixSeq, starts, hazardAlertsRaised>>
    /\ lastOp' = "calculateRouteToNearestSafePlace"
    /\ UNCHANGED otherVars

\* Variant of EmergencyRouteArrives: the approaching flag is cleared in the
\* state only, isApproachingStartRef keeps its value
EmergencyRouteArrivesKeepingRef ==
    \E e \in emerg, outcome \in RouteOutcomes :
        /\ e.phase = 1
        /\ IF outcome = "route"
           THEN /\ emergencyRoute' = Some(ValhallaRoute(e.loc, e.place.lat, "car"))
                /\ closestPathIndexRef' = 0
                /\ closestPathIndex' = 0
                /\ isApproachingStart' = FALSE
                /\ UNCHANGED isApproachingStartRef
                /\ navigationAlert' = Some(REROUTING)
                /\ routeStatus' = "success"
                /\ emerg' =
                      IF IsSome(initialRouteSnapshotRef)
                      THEN (emerg \ {e}) \cup
                              {[e EXCEPT !.phase = 2,
                                         !.start = Some(Val(initialRouteSnapshotRef).start)]}
                      ELSE emerg \ {e}
           ELSE /\ routeStatus' = "error"
                /\ emerg' = emerg \ {e}
                /\ UNCHANGED <<emergencyRoute, closestPathIndexRef, closestPathIndex,
                               isApproachingStart, isApproachingStartRef,
                               navigationAlert>>
        /\ UNCHANGED <<isNavigating, liveLocation, navigationStats, weatherAlert,
                       animalsNearRoute, alternativeEmergencyRoute, safeRoute,
                       alternativeRoute, safePlaces, watchIdRef,
                       lastWeatherCheckTimestampRef, initialRouteSnapshotRef,
                       shownAnimalAlertsRef, watches, now, pending, fixSeq, starts, hazardAlertsRaised>>
        /\ lastOp' = "emergency route arrives"
        /\ UNCHANGED otherVars

\* The request for the emergency route completes (lines 695-718)
EmergencyRouteArrives ==
    \E e \in emerg, outcome \in RouteOutcomes :
        /\ e.phase = 1
        /\ IF outcome = "route"
           THEN /\ emergencyRoute' = Some(ValhallaRoute(e.loc, e.place.lat, "car"))
                /\ closestPathIndexRef' = 0
                /\ closestPathIndex' = 0
                /\ isApproachingStart' = FALSE
                /\ isApproachingStartRef' = FALSE
                /\ navigationAlert' = Some(REROUTING)
                /\ routeStatus' = "success"
                /\ emerg' =
                      IF IsSome(initialRouteSnapshotRef)
                      THEN (emerg \ {e}) \cup
                              {[e EXCEPT !.phase = 2,
                                         !.start = Some(Val(initialRouteSnapshotRef).start)]}
                      ELSE emerg \ {e}
           ELSE /\ routeStatus' = "error"
                /\ emerg' = emerg \ {e}
                /\ UNCHANGED <<emergencyRoute, closestPathIndexRef, closestPathIndex,
                               isApproachingStart, isApproachingStartRef,
                               navigationAlert>>
        /\ UNCHANGED <<isNavigating, liveLocation, navigationStats, weatherAlert,
                       animalsNearRoute, alternativeEmergencyRoute, safeRoute,
                       alternativeRoute, safePlaces, watchIdRef,
                       lastWeatherCheckTimestampRef, initialRouteSnapshotRef,
                       shownAnimalAlertsRef, watches, now, pending, fixSeq, starts, hazardAlertsRaised>>
        /\ lastOp' = "emergency route arrives"
        /\ UNCHANGED otherVars

\* The request for the alternative emergency route completes (lines 709-718)
EmergencyAlternativeArrives ==
    \E e \in emerg, outcome \in RouteOutcomes :
        /\ e.phase = 2
        /\ emerg' = emerg \ {e}
        /\ IF outcome = "throws"
           THEN /\ routeStatus' = "error"
                /\ UNCHANGED alternativeEmergencyRoute
           ELSE /\ alternativeEmergencyRoute' =
                      IF outcome = "route"
                      THEN Some(ValhallaRoute(Val(e.start), e.place.lat, "car"))
                      ELSE None
                /\ UNCHANGED routeStatus
        /\ UNCHANGED <<isNavigating, liveLocation, navigationStats, navigationAlert,
                       weatherAlert, animalsNearRoute, closestPathIndex,
                       isApproachingStart, emergencyRoute, safeRoute,
                       alternativeRoute, safePlaces, isApproachingStartRef,
                       watchIdRef, lastWeatherCheckTimestampRef,
                       closestPathIndexRef, initialRouteSnapshotRef,
                       shownAnimalAlertsRef, watches, now, pending, fixSeq, starts, hazardAlertsRaised>>
        /\ lastOp' = "alternative emergency route arrives"
        /\ UNCHANGED otherVars

----------------------------------------------------------------------------
(* fetchJson (src/App.tsx lines 485-532) *)

\* Default arguments of fetchJson; no caller passes others
retries == 3
initialDelay == 1000

\* JSON values, as far as the code looks into them: null, or an object with
\* its top-level keys and the value of trip.legs (None where there is none;
\* a leg is [summary], the summary None or [length, time], length in km and
\* time in seconds)
JsonNull == [json |-> "null", keys |-> {}, legs |-> None]
JsonObject(keys, legs) == [json |-> "object", keys |-> keys, legs |-> legs]
Leg(length, time) == [summary |-> Some([length |-> length, time |-> time])]

\* The (length km, time s) summaries of the routing service's answers
TripSummaries ==
    {<<20, 20>>, <<20, 540>>, <<20, 600>>, <<20, 660>>, <<20, 720>>,
     <<20, 2040>>, <<20, 2100>>, <<20, 7200>>, <<20, 7260>>, <<20, 8940>>,
     <<20, 9000>>, <<20, 9060>>, <<20, 36000>>, <<20, 36060>>,
     <<70, 3600>>, <<71, 3600>>}

\* The JSON values the services answer with
JsonValues ==
    {JsonObject({"trip"}, None),
     JsonObject({"error_code", "error"}, None),
     JsonObject({"trip"}, Some(<<>>)),
     JsonObject({"trip"}, Some(<<[summary |-> None]>>))} \cup
    {JsonObject({"trip"}, Some(<<Leg(t[1], t[2])>>)) : t \in TripSummaries}

\* The text of a JSON value
JSONstringify(value) ==
    IF value.legs = None
    THEN IF "trip" \in value.keys THEN "{\"trip\":{}}"
         ELSE "{\"error_code\":442,\"error\":\"No path could be found for input\"}"
    ELSE IF Val(value.legs) = <<>> THEN "{\"trip\":{\"legs\":[]}}"
    ELSE IF Val(value.legs)[1].summary = None THEN "{\"trip\":{\"legs\":[{}]}}"
    ELSE "{\"trip\":{\"legs\":[{\"summary\":{\"length\":"
             \o ToString(Val(Val(value.legs)[1].summary).length)
             \o ",\"time\":"
             \o ToString(Val(Val(value.legs)[1].summary).time)
             \o "},\"shape\":\"_p~iF~ps|U\"}]}}"

\* Response bodies: empty, a JSON text, and a text that is no JSON
EmptyBody == ""
JsonBody == "{\"trip\":{}}"
GarbageBody == "<html>Bad Gateway</html>"

\* JSON.parse: the parsed value, or None where JSON.parse throws
JSONparse(text) ==
    IF \E value \in JsonValues : JSONstringify(value) = text
    THEN Some(CHOOSE value \in JsonValues : JSONstringify(value) = text)
    ELSE None

\* What `await fetch(url, options)` can produce: a rejection (transport
\* failure) or a response with a status and a body
FetchOutcomes ==
    {[rejected |-> TRUE, status |-> 0, body |-> EmptyBody]} \cup
    {[rejected |-> FALSE, status |-> st, body |-> b] :
        st \in {200, 404, 500}, b \in {EmptyBody, JsonBody, GarbageBody}}

\* response.ok
ok(response) == response.status >= 200 /\ response.status <= 299

Returned(value) == Some([kind |-> "returned", json |-> value, message |-> ""])
Thrown(message) ==
    Some([kind |-> "thrown", json |-> [json |-> "none", keys |-> {}, legs |-> None],
          message |-> message])

FetchInit ==
    /\ fetchJsonCall = [pc |-> "idle", i |-> 0, delay |-> 0, lastError |-> None]
    /\ fetchResult = None
    /\ fetchLog = <<>>
    /\ fetchWaits = <<>>

\* Lines 529-531: the loop is over
AllRetriesFailed ==
    Thrown("The required data could not be fetched. Please check your network connection.")

\* The loop test of line 489 for the value i of the loop variable: the next
\* request is sent, or the loop is left and the generic error thrown
LoopTest(i, delay, lastError) ==
    IF i < retries
    THEN /\ fetchJsonCall' = [pc |-> "fetch", i |-> i, delay |-> delay,
                              lastError |-> lastError]
         /\ fetchResult' = None
    ELSE /\ fetchJsonCall' = [pc |-> "settled", i |-> i, delay |-> delay,
                              lastError |-> lastError]
         /\ fetchResult' = AllRetriesFailed

\* fetchJson(url) is called: lines 486-491, up to the first request
FetchJson ==
    /\ fetchJsonCall.pc = "idle"
    /\ LoopTest(0, initialDelay, None)
    /\ UNCHANGED <<fetchLog, fetchWaits>>
    /\ UNCHANGED <<navVars, planVars, routeVars, geoVars>>

\* The message of the error that lines 491-519 throw or record for a
\* request's outcome, None where they return
ErrorOf(outcome) ==
    IF outcome.rejected THEN Some("Failed to fetch")
    ELSE IF ok(outcome)
    THEN IF outcome.body # EmptyBody /\ JSONparse(outcome.body) = None
         THEN Some("Received invalid JSON from the server.")
         ELSE None
    ELSE Some("API Error: Status")

\* The request of the current attempt completes (lines 491-525, up to the
\* return or to the timer of line 511 or 524).  An error thrown inside the
\* try block of line 490 (lines 501 and 518) is caught at line 520.
FetchSettlesFrom(outcomes) ==
    \E outcome \in outcomes :
        /\ fetchJsonCall.pc = "fetch"
        /\ fetchLog' = Append(fetchLog, outcome)
        /\ IF ErrorOf(outcome) = None
           THEN /\ fetchResult' =
                      IF outcome.body = EmptyBody
                      THEN Returned(JsonNull)
                      ELSE Returned(Val(JSONparse(outcome.body)))
                /\ fetchJsonCall' = [fetchJsonCall EXCEPT !.pc = "settled"]
           ELSE /\ fetchJsonCall' = [fetchJsonCall EXCEPT
                                        !.pc = "backoff",
                                        !.lastError = ErrorOf(outcome)]
                /\ UNCHANGED fetchResult
        /\ UNCHANGED fetchWaits
        /\ UNCHANGED <<navVars, planVars, routeVars, geoVars>>

FetchSettles == FetchSettlesFrom(FetchOutcomes)

\* The timer of line 511 or 524 fires: the delay doubles and the loop goes
\* to its next round (lines 512-513, or 525 and the loop's i++)
BackoffElapses ==
    /\ fetchJsonCall.pc = "backoff"
    /\ fetchWaits' = Append(fetchWaits, fetchJsonCall.delay)
    /\ LoopTest(fetchJsonCall.i + 1, fetchJsonCall.delay * 2, fetchJsonCall.lastError)
    /\ UNCHANGED fetchLog
    /\ UNCHANGED <<navVars, planVars, routeVars, geoVars>>

----------------------------------------------------------------------------
(* getSafeNavigationRoute (src/App.tsx lines 801-879) *)

TravelModes == {"car", "walk", "bike", "bus"}

\* The route request followed here: 10 km along the meridian
RouteRequest == [start |-> 0, end |-> 10]

\* What the routing service may answer a request of fetchJson with: nothing
\* (transport failure), a 500, a 400 with its error document, or a 200 with
\* an empty body, a body that is no JSON, or the text of a JSON value
ValhallaOutcomes ==
    {[rejected |-> TRUE, status |-> 0, body |-> EmptyBody],
     [rejected |-> FALSE, status |-> 500, body |-> EmptyBody],
     [rejected |-> FALSE, status |-> 400,
      body |-> JSONstringify(JsonObject({"error_code", "error"}, None))]} \cup
    {[rejected |-> FALSE, status |-> 200, body |-> b] :
        b \in {EmptyBody, GarbageBody} \cup {JSONstringify(v) : v \in JsonValues}}

\* What a call of the route layer ends in: a route, null, or an error
RouteResult(kind, route) == [kind |-> kind, route |-> route]

RouteInit ==
    routeCall = [pc |-> "idle", start |-> 0, end |-> 0, mode |-> "car",
                 result |-> RouteResult("none", None)]

\* Lines 821-832 of _fetchValhallaRoute, for the value data that fetchJson
\* returned.  data.trip.legs[0].summary throws a TypeError where legs is an
\* empty array.  The path is the one the shape encodes: the trip along the
\* meridian; length is a whole number of km, which toFixed(1) leaves as it
\* is.
fetchValhallaRoute(data, start, end, mode) ==
    IF data.json = "null" \/ "trip" \notin data.keys \/ data.legs = None
    THEN RouteResult("null", None)
    ELSE IF Val(data.legs) = <<>>
    THEN RouteResult("thrown", None)
    ELSE IF Val(data.legs)[1].summary = None
    THEN RouteResult("null", None)
    ELSE LET summary == Val(Val(data.legs)[1].summary)
         IN  RouteResult("route",
                 Some([path |-> IF start = end THEN <<start, end>>
                                ELSE StraightPath(start, end),
                       distanceKm |-> summary.length,
                       durationMinutes |-> RoundDiv(summary.time, 60),
                       start |-> start, end |-> end, mode |-> mode,
                       isHighRisk |-> FALSE]))

\* Lines 846-847
minSpeed(mode) ==
    CASE mode = "car" -> 10 [] mode = "bus" -> 10 [] mode = "bike" -> 8
      [] mode = "walk" -> 2
maxSpeed(mode) ==
    CASE mode = "car" -> 120 [] mode = "bus" -> 100 [] mode = "bike" -> 35
      [] mode = "walk" -> 8

\* Lines 835-856.  avgSpeedKmh = distanceKm / (durationMinutes / 60) is
\* compared with the band as 60 * distanceKm with band * durationMinutes;
\* for the summaries used here the quotient in double precision compares
\* the same way.
isRouteReasonable(route, start, end) ==
    IF route.distanceKm > calculateDistance(start, end) * 7 THEN FALSE
    ELSE IF route.durationMinutes > 0
    THEN ~ \/ 60 * route.distanceKm < minSpeed(route.mode) * route.durationMinutes
           \/ 60 * route.distanceKm > maxSpeed(route.mode) * route.durationMinutes
    ELSE TRUE

\* Lines 858-879, for what fetchJson returned or threw
getSafeNavigationRoute(fetched, start, end, mode) ==
    IF fetched.kind = "thrown" THEN RouteResult("thrown", None)
    ELSE LET valhallaRoute == fetchValhallaRoute(fetched.json, start, end, mode)
         IN  IF valhallaRoute.kind = "route"
             THEN IF isRouteReasonable(Val(valhallaRoute.route), start, end)
                  THEN valhallaRoute
                  ELSE RouteResult("null", None)
             ELSE valhallaRoute

\* getSafeNavigationRoute(start, end, [], mode) is called: lines 859-861 and
\* 802-819 and fetchJson up to its first request
GetSafeNavigationRoute ==
    \E mode \in TravelModes :
        /\ routeCall.pc = "idle"
        /\ fetchJsonCall.pc = "idle"
        /\ routeCall' = [routeCall EXCEPT !.pc = "fetching",
                                          !.start = RouteRequest.start,
                                          !.end = RouteRequest.end,
                                          !.mode = mode]
        /\ LoopTest(0, initialDelay, None)
        /\ UNCHANGED <<fetchLog, fetchWaits>>
        /\ UNCHANGED <<navVars, planVars, geoVars>>

\* A request of the call's fetchJson completes
ValhallaAnswers == FetchSettlesFrom(ValhallaOutcomes)

\* fetchJson has returned or thrown and the call runs to its end (lines
\* 821-832 and 863-878)
RouteSettles ==
    /\ routeCall.pc = "fetching"
    /\ fetchJsonCall.pc = "settled"
    /\ routeCall' = [routeCall EXCEPT
                        !.pc = "settled",
                        !.result = getSafeNavigationRoute(Val(fetchResult),
                                       routeCall.start, routeCall.end,
                                       routeCall.mode)]
    /\ UNCHANGED <<navVars, fetchVars, planVars, geoVars>>

----------------------------------------------------------------------------
(* Calls of getPathDataFromLocation (src/App.tsx lines 376-416) *)

\* The paths on which getPathDataFromLocation is followed: none, a single
\* point, a straight path, the long route, and paths that lead away from
\* the traveller at km 0 for k points and back: the first point 1 km
\* away, k points 5 km away, the last point at km 0
Detour(k) == <<1>> \o [i \in 1..k |-> 5] \o <<0>>
PathInputs ==
    {<<>>, <<1>>, StraightPath(1, 3), StraightPath(1, TrackLen)}
        \cup {Detour(k) : k \in (MaxDetour - 2)..MaxDetour}

\* The calls followed: a query location, a path, and as searchStartIndex
\* an index of the path
PathCalls ==
    UNION {{[userLocation |-> l, routePath |-> path, searchStartIndex |-> hint,
             result |-> None] :
               l \in 0..(MaxPos + 3),
               hint \in {h \in {0, 1, BACK_BUFFER + 1, TrackLen - 1} :
                            h = 0 \/ h < Len(path)}} :
           path \in PathInputs}

PathIdle ==
    pathCall = [userLocation |-> 0, routePath |-> <<>>, searchStartIndex |-> 0,
                result |-> None]

\* getPathDataFromLocation runs from its call to its return
GetPathDataFromLocation ==
    /\ ~IsSome(pathCall.result)
    /\ pathCall' =
          [pathCall EXCEPT !.result =
              Some(getPathDataFromLocation(pathCall.userLocation,
                                           pathCall.routePath,
                                           pathCall.searchStartIndex))]
    /\ UNCHANGED <<navVars, fetchVars, planVars, routeVars>>

----------------------------------------------------------------------------
(* calculateSafeRoute (src/hooks/useAnimalData.ts lines 303-413) *)

\* The planning request followed here: 100 km along the meridian by car,
\* hazards searched within 50 km of the route
PlanRequest == [start |-> 0, end |-> 100, radius |-> 50, mode |-> "car"]

\* Where the most recent sighting of a species lies (km along the meridian)
SightingOf(id) == IF id = 1 THEN 10 ELSE 50

\* What one prediction cycle meets: per species the answer of
\* api.getAnimalSightings (which returns [] where its request fails),
\* whether TensorFlow.js is loaded, the two address lookups (reverseGeocode
\* of the sighting, line 214, and of a predicted point, line 219) and the
\* answer of api.findSafePlacesInArea (which returns [] where its request
\* fails).  Manually reported sightings are left out.
PredictorInputs ==
    [sightings : [AnimalIds -> {"fails", "none", "found"}],
     tf : {"loaded", "undefined"},
     currentAddr : {"ok", "fails"},
     predAddr : {"ok", "fails"},
     places : {<<>>, <<Place(1, 20)>>}]

\* api.predictAnimalPaths (src/App.tsx lines 719-788): one group per species
\* with a sighting, none when TensorFlow.js is not loaded
predictAnimalPaths(sightingSets, tf) ==
    IF tf = "undefined" THEN <<>> ELSE sightingSets

\* getPredictionsForArea from line 158 on: what it returns or throws,
\* whether it reaches setSafePlaces, and how the cycle failed, if it did
getPredictionsForArea(input) ==
    LET sightingSets ==
            SelectSeq(<<1, 2>>, LAMBDA id : input.sightings[id] = "found")
        pathPredictions == predictAnimalPaths(sightingSets, input.tf)
    IN  IF Len(sightingSets) = 0
        THEN [throws |-> FALSE, predictions |-> <<>>, places |-> input.places,
              failure |-> "none"]
        ELSE IF Len(pathPredictions) > 0 /\ input.currentAddr = "fails"
        THEN [throws |-> TRUE, predictions |-> <<>>, places |-> <<>>,
              failure |-> "lookup failed"]
        ELSE [throws |-> FALSE,
              predictions |-> [k \in 1..Len(pathPredictions) |->
                                 Animal(pathPredictions[k],
                                        SightingOf(pathPredictions[k]))],
              places |-> input.places,
              failure |-> IF input.tf = "undefined"
                          THEN "batch computation unavailable" ELSE "none"]

\* A Route of the routing service for the planning request
PlanRoute(path, distanceKm, durationMinutes, mode) ==
    [path |-> path, distanceKm |-> distanceKm, durationMinutes |-> durationMinutes,
     start |-> PlanRequest.start, end |-> PlanRequest.end, mode |-> mode,
     isHighRisk |-> FALSE]

\* What getSafeNavigationRoute can end in: an error, no route, or a route
RouteAnswers(routes) ==
    {[throws |-> TRUE, route |-> None], [throws |-> FALSE, route |-> None]} \cup
    {[throws |-> FALSE, route |-> Some(r)] : r \in routes}

\* Direct routes of 100 km in 60 or 100 minutes
DirectRoutes ==
    {PlanRoute(<<PlanRequest.start, PlanRequest.end>>, 100, d, PlanRequest.mode) :
        d \in {60, 100}}

\* Routes of 140 km around the hazards
AvoidingRoutes ==
    {PlanRoute(<<PlanRequest.start, 120, PlanRequest.end>>, 140, d, PlanRequest.mode) :
        d \in {90, 149, 150, 219, 220, 250}}

PlanInit ==
    /\ plans = {}
    /\ probes = {}
    /\ isPredictingRef = FALSE
    /\ otherModesInfo = [m \in TravelModes |-> None]

\* The call c, with its record replaced by d
PlanStep(c, d) == plans' = (plans \ {c}) \cup {d}

\* Lines 303-307 and 329-332: calculateSafeRoute(start, end, radius, mode,
\* excludedAnimalIds) with start and end given as locations, up to
\* `await getPredictionsForArea`; lines 150-156: the predictor returns []
\* at once when a prediction cycle is in progress.  The call is at most
\* the calls-th of the run; unless overlapping, it is made when no earlier
\* call is under way, and the record of the earlier call is dropped.
CalculateSafeRouteCall(calls, overlapping) ==
    \E excludedAnimalIds \in {{}, {1}, {1, 2}} :
        /\ \A c \in plans :
              c.call < calls /\ (overlapping \/ c.pc \in {"done", "failed"})
        /\ routeStatus' = "loading"
        /\ alternativeRoute' = None
        /\ otherModesInfo' = [m \in TravelModes |-> None]
        /\ plans' = (IF overlapping THEN plans ELSE {}) \cup
                     {[pc |-> IF isPredictingRef THEN "direct" ELSE "predictions",
                      call |-> IF plans = {} THEN 1
                               ELSE (CHOOSE c \in plans :
                                        \A d \in plans : d.call <= c.call).call + 1,
                      excludedAnimalIds |-> excludedAnimalIds,
                      relevantPredictions |-> <<>>,
                      avoidancePolygons |-> <<>>,
                      directRoute |-> None, safeAlternative |-> None,
                      finalRoute |-> None, alternative |-> None,
                      predictorFailure |-> IF isPredictingRef
                                           THEN "prediction in progress"
                                           ELSE "none",
                      failedAt |-> "nowhere"]}
        /\ isPredictingRef' = TRUE
        /\ UNCHANGED <<isNavigating, liveLocation, navigationStats,
                       navigationAlert, weatherAlert, animalsNearRoute,
                       closestPathIndex, isApproachingStart, emergencyRoute,
                       alternativeEmergencyRoute, safeRoute, safePlaces,
                       isApproachingStartRef, watchIdRef,
                       lastWeatherCheckTimestampRef, closestPathIndexRef,
                       initialRouteSnapshotRef, shownAnimalAlertsRef, watches,
                       now, pending, fixSeq, emerg, starts, hazardAlertsRaised>>
        /\ lastOp' = "calculateSafeRoute"
        /\ UNCHANGED <<probes, fetchVars, routeVars, geoVars>>

\* A call made when no earlier call is under way
CalculateSafeRouteUpTo(calls) == CalculateSafeRouteCall(calls, FALSE)

\* The one planning call of a run
CalculateSafeRoute == CalculateSafeRouteUpTo(1)

\* A planning call, possibly while an earlier one is under way
CalculateSafeRouteOverlapping == CalculateSafeRouteCall(MaxPlans, TRUE)

\* A planning call, possibly after earlier ones
CalculateSafeRouteAgain == CalculateSafeRouteUpTo(MaxPlans)

\* The variables no step of calculateSafeRoute after the first writes
planFrame == <<isNavigating, liveLocation, navigationStats, navigationAlert,
               weatherAlert, closestPathIndex, isApproachingStart,
               emergencyRoute, alternativeEmergencyRoute,
               isApproachingStartRef, watchIdRef,
               lastWeatherCheckTimestampRef, closestPathIndexRef,
               initialRouteSnapshotRef, shownAnimalAlertsRef, watches, now,
               pending, fixSeq, emerg, starts, hazardAlertsRaised, fetchVars,
               routeVars, geoVars>>

\* Lines 408-412: the catch of calculateSafeRoute; failedAt keeps the await
\* the error came from
PlanFails(c) ==
    /\ routeStatus' = "error"
    /\ PlanStep(c, [c EXCEPT !.pc = "failed", !.failedAt = c.pc])

\* getPredictionsForArea ends (lines 197, 254, 261-267) and the planner
\* goes on to the direct request (lines 332-335)
PredictionsArrive ==
    \E c \in plans, input \in PredictorInputs :
        LET outcome == getPredictionsForArea(input)
        IN  /\ c.pc = "predictions"
            /\ isPredictingRef' = FALSE
            /\ IF outcome.throws
               THEN /\ routeStatus' = "error"
                    /\ PlanStep(c, [c EXCEPT !.pc = "failed", !.failedAt = c.pc,
                                             !.predictorFailure = outcome.failure])
                    /\ UNCHANGED safePlaces
               ELSE /\ safePlaces' = outcome.places
                    /\ PlanStep(c, [c EXCEPT !.pc = "direct",
                                             !.relevantPredictions = outcome.predictions,
                                             !.predictorFailure = outcome.failure])
                    /\ UNCHANGED routeStatus
            /\ UNCHANGED <<safeRoute, alternativeRoute, animalsNearRoute, probes,
                           otherModesInfo>>
            /\ lastOp' = "predictions arrive"
            /\ UNCHANGED planFrame

\* The prediction cycle of the map view (fetchInitialData, lines 464-481)
\* begins: getPredictionsForArea passes its guard and sets isPredictingRef
\* (lines 150-154)
PredictionCycleStarts ==
    /\ ~isPredictingRef
    /\ isPredictingRef' = TRUE
    /\ UNCHANGED <<safeRoute, alternativeRoute, safePlaces, animalsNearRoute,
                   routeStatus, plans, probes, otherModesInfo>>
    /\ lastOp' = "prediction cycle starts"
    /\ UNCHANGED planFrame

\* The prediction cycle of the map view ends (lines 197, 254, 261-267)
PredictionCycleEnds ==
    \E input \in PredictorInputs :
        LET outcome == getPredictionsForArea(input)
        IN  /\ isPredictingRef
            /\ \A c \in plans : c.pc # "predictions"
            /\ isPredictingRef' = FALSE
            /\ safePlaces' = IF outcome.throws THEN safePlaces ELSE outcome.places
            /\ UNCHANGED <<safeRoute, alternativeRoute, animalsNearRoute,
                           routeStatus, plans, probes, otherModesInfo>>
            /\ lastOp' = "prediction cycle ends"
            /\ UNCHANGED planFrame

\* Line 341: createCirclePolygon around a prediction
createCirclePolygon(center, radiusKm) == [center |-> center, radiusKm |-> radiusKm]

\* Lines 339-341
AvoidancePolygons(relevantPredictions, excludedAnimalIds, radius) ==
    LET kept == SelectSeq(relevantPredictions, LAMBDA p : p.id \notin excludedAnimalIds)
    IN  [k \in 1..Len(kept) |-> createCirclePolygon(kept[k].current, radius \div 10)]

\* Variant of Arbitrate: a detour of exactly the absolute threshold is still
\* taken
ArbitrateAtThreshold(directRoute, safeAlternative) ==
    IF /\ IsSome(safeAlternative)
       /\ 2 * Val(safeAlternative).durationMinutes < 5 * directRoute.durationMinutes
       /\ Val(safeAlternative).durationMinutes <= directRoute.durationMinutes + 120
    THEN [finalRoute |-> Val(safeAlternative),
          alternative |-> Some([directRoute EXCEPT !.isHighRisk = TRUE])]
    ELSE [finalRoute |-> [directRoute EXCEPT !.isHighRisk = TRUE],
          alternative |-> safeAlternative]

\* Variant of Arbitrate: the direct route is flagged only when it is primary
ArbitrateFlagsPrimaryOnly(directRoute, safeAlternative) ==
    IF /\ IsSome(safeAlternative)
       /\ 2 * Val(safeAlternative).durationMinutes < 5 * directRoute.durationMinutes
       /\ Val(safeAlternative).durationMinutes < directRoute.durationMinutes + 120
    THEN [finalRoute |-> Val(safeAlternative),
          alternative |-> Some(directRoute)]
    ELSE [finalRoute |-> [directRoute EXCEPT !.isHighRisk = TRUE],
          alternative |-> safeAlternative]

\* Lines 351-366: the choice between the direct route and the answer of the
\* avoiding request
Arbitrate(directRoute, safeAlternative) ==
    IF /\ IsSome(safeAlternative)
       /\ 2 * Val(safeAlternative).durationMinutes < 5 * directRoute.durationMinutes
       /\ Val(safeAlternative).durationMinutes < directRoute.durationMinutes + 120
    THEN [finalRoute |-> Val(safeAlternative),
          alternative |-> Some([directRoute EXCEPT !.isHighRisk = TRUE])]
    ELSE [finalRoute |-> [directRoute EXCEPT !.isHighRisk = TRUE],
          alternative |-> safeAlternative]

\* The direct request ends (lines 335-346 and, without polygons, 367-375)
DirectRouteArrives ==
    \E c \in plans, answer \in RouteAnswers(DirectRoutes) :
        /\ c.pc = "direct"
        /\ IF answer.throws \/ ~IsSome(answer.route)
           THEN /\ PlanFails(c)
                /\ UNCHANGED <<safeRoute, alternativeRoute>>
           ELSE LET directRoute == Val(answer.route)
                    avoidancePolygons ==
                        AvoidancePolygons(c.relevantPredictions, c.excludedAnimalIds,
                                          PlanRequest.radius)
                    d == [c EXCEPT !.directRoute = answer.route,
                                   !.avoidancePolygons = avoidancePolygons]
                IN  /\ UNCHANGED routeStatus
                    /\ IF Len(avoidancePolygons) > 0
                       THEN /\ PlanStep(c, [d EXCEPT !.pc = "safe"])
                            /\ UNCHANGED <<safeRoute, alternativeRoute>>
                       ELSE /\ safeRoute' = Some(directRoute)
                            /\ alternativeRoute' = None
                            /\ PlanStep(c, [d EXCEPT !.pc = "places",
                                                     !.finalRoute = Some(directRoute)])
        /\ UNCHANGED <<safePlaces, animalsNearRoute, probes, isPredictingRef,
                       otherModesInfo>>
        /\ lastOp' = "direct route arrives"
        /\ UNCHANGED planFrame

\* The avoiding request ends (lines 348-375): the routes are published and
\* the safe places along the primary route requested
SafeRouteArrives ==
    \E c \in plans, answer \in RouteAnswers(AvoidingRoutes) :
        /\ c.pc = "safe"
        /\ IF answer.throws
           THEN /\ PlanFails(c)
                /\ UNCHANGED <<safeRoute, alternativeRoute>>
           ELSE LET choice == Arbitrate(Val(c.directRoute), answer.route)
                IN  /\ safeRoute' = Some(choice.finalRoute)
                    /\ alternativeRoute' = choice.alternative
                    /\ PlanStep(c, [c EXCEPT !.pc = "places",
                                             !.safeAlternative = answer.route,
                                             !.finalRoute = Some(choice.finalRoute),
                                             !.alternative = choice.alternative])
                    /\ UNCHANGED routeStatus
        /\ UNCHANGED <<safePlaces, animalsNearRoute, probes, isPredictingRef,
                       otherModesInfo>>
        /\ lastOp' = "avoiding route arrives"
        /\ UNCHANGED planFrame

\* Lines 378-381: the predictions within radius of the primary route's path
NearbyAnimals(relevantPredictions, finalRoute, radius) ==
    SelectSeq(relevantPredictions,
              LAMBDA p : getPathDataFromLocation(p.current, finalRoute.path, 0)
                             .distanceToPathKm < radius)

\* What findSafePlacesAlongRoute can end in: it catches its errors and
\* returns no places then
PlacesAnswers == {<<>>, <<Place(1, 20)>>}

\* The safe-place request ends (lines 375-406): places, hazards near the
\* route and the status are published, and one probe per other mode starts
PlacesArrive ==
    \E c \in plans, places \in PlacesAnswers :
        /\ c.pc = "places"
        /\ safePlaces' = places
        /\ animalsNearRoute' =
              NearbyAnimals(c.relevantPredictions, Val(c.finalRoute),
                            PlanRequest.radius)
        /\ routeStatus' = "success"
        /\ probes' = probes \cup
              {[mode |-> otherMode, call |-> c.call] :
                  otherMode \in TravelModes \ {PlanRequest.mode}}
        /\ PlanStep(c, [c EXCEPT !.pc = "done"])
        /\ UNCHANGED <<safeRoute, alternativeRoute, isPredictingRef, otherModesInfo>>
        /\ lastOp' = "safe places arrive"
        /\ UNCHANGED planFrame

\* The route request of a mode probe ends (lines 391-403)
ProbeArrives ==
    \E probe \in probes, answer \in RouteAnswers({PlanRoute(<<0, 100>>, 100, 90, "bus")}) :
        /\ probes' = probes \ {probe}
        /\ otherModesInfo' =
              IF IsSome(answer.route)
              THEN [otherModesInfo EXCEPT ![probe.mode] =
                       Some([distanceKm |-> Val(answer.route).distanceKm,
                             durationMinutes |-> Val(answer.route).durationMinutes])]
              ELSE otherModesInfo
        /\ UNCHANGED <<safeRoute, alternativeRoute, safePlaces, animalsNearRoute,
                       routeStatus, plans, isPredictingRef>>
        /\ lastOp' = "mode probe arrives"
        /\ UNCHANGED planFrame

----------------------------------------------------------------------------
(* The navigation session *)

Init == NavInit /\ FetchInit /\ PlanInit /\ RouteInit /\ PathIdle

\* The session without emergency rerouting
Next ==
    \/ RoutePlanned
    \/ StartNavigation
    \/ StopNavigation
    \/ PositionFix
    \/ WeatherArrives
    \/ PositionError
    \/ ClearNavigationAlert
    \/ ClearWeatherAlert
    \/ Tick

Spec == Init /\ [][Next]_vars

\* The session with emergency rerouting
NextReroute ==
    \/ RoutePlanned
    \/ StartNavigation
    \/ StopNavigation
    \/ PositionFix
    \/ WeatherArrives
    \/ EmergencyRequest
    \/ EmergencyRouteArrives
    \/ EmergencyAlternativeArrives

SpecReroute == Init /\ [][NextReroute]_vars

\* The session with signal loss and emergency rerouting
NextSignal ==
    \/ RoutePlanned
    \/ StartNavigation
    \/ SignalFix
    \/ WeatherArrives
    \/ PositionError
    \/ EmergencyRequest
    \/ EmergencyRouteArrives

SpecSignal == Init /\ [][NextSignal]_vars

\* The session that is started again while it runs
NextRestart ==
    \/ RoutePlanned
    \/ Restart
    \/ StartNavigationWithoutRoute
    \/ RestartFix
    \/ WeatherArrives
    \/ EmergencyRequest
    \/ EmergencyRouteArrives
    \/ EmergencyAlternativeArrives

SpecRestart == Init /\ [][NextRestart]_vars

\* The session on the long route
NextTrack ==
    \/ TrackPlanned
    \/ StartNavigation
    \/ StopNavigation
    \/ TrackFix
    \/ WeatherArrives
    \/ Tick

SpecTrack == Init /\ [][NextTrack]_vars

\* The session on the long route, with fixes that advance along it
NextAdvance ==
    \/ TrackPlanned
    \/ StartNavigation
    \/ StopNavigation
    \/ AdvancingFix
    \/ WeatherArrives
    \/ Tick

SpecAdvance == Init /\ [][NextAdvance]_vars

\* The session on the long route, replaced by the short route on the way
NextSwap ==
    \/ TrackPlanned
    \/ StartNavigation
    \/ AdvancingFix
    \/ WeatherArrives
    \/ RouteReplaced

SpecSwap == Init /\ [][NextSwap]_vars

\* One call of fetchJson
NextFetch ==
    \/ FetchJson
    \/ FetchSettles
    \/ BackoffElapses

SpecFetch == Init /\ [][NextFetch]_vars

\* One call of getSafeNavigationRoute
NextRoute ==
    \/ GetSafeNavigationRoute
    \/ ValhallaAnswers
    \/ BackoffElapses
    \/ RouteSettles

SpecRoute == Init /\ [][NextRoute]_vars

\* One call of getPathDataFromLocation
PathInit ==
    NavInit /\ FetchInit /\ PlanInit /\ RouteInit /\ pathCall \in PathCalls

NextPath == GetPathDataFromLocation

SpecPath == PathInit /\ [][NextPath]_vars

\* One call of calculateSafeRoute
NextPlan ==
    \/ CalculateSafeRoute
    \/ PredictionsArrive
    \/ DirectRouteArrives
    \/ SafeRouteArrives
    \/ PlacesArrive
    \/ ProbeArrives

SpecPlan == Init /\ [][NextPlan]_vars

\* One call of calculateSafeRoute beside the prediction cycles of the map
\* view
NextCycle ==
    \/ PredictionCycleStarts
    \/ PredictionCycleEnds
    \/ CalculateSafeRoute
    \/ PredictionsArrive
    \/ DirectRouteArrives
    \/ SafeRouteArrives
    \/ PlacesArrive

SpecCycle == Init /\ [][NextCycle]_vars

\* Overlapping calls of calculateSafeRoute
NextOverlap ==
    \/ CalculateSafeRouteOverlapping
    \/ PredictionsArrive
    \/ DirectRouteArrives
    \/ SafeRouteArrives
    \/ PlacesArrive

SpecOverlap == Init /\ [][NextOverlap]_vars

\* Successive calls of calculateSafeRoute
NextReplan ==
    \/ CalculateSafeRouteAgain
    \/ PredictionsArrive
    \/ DirectRouteArrives
    \/ SafeRouteArrives
    \/ PlacesArrive
    \/ ProbeArrives

SpecReplan == Init /\ [][NextReplan]_vars

----------------------------------------------------------------------------
(* Properties of the navigation session *)

\* The step is the resumption of the suspended handler h
Resumes(h) == h \in pending /\ pending' = pending \ {h}

\* The step is the completion of a request of the reroute call e
Completes(e) == e \in emerg /\ e \notin emerg' /\ lastOp' \in
    {"emergency route arrives", "alternative emergency route arrives"}

\* C1: a position handler that was suspended at the weather request when
\* stopNavigation was called has no effect when it resumes: it changes
\* neither the weather alert nor the navigation alert, the live position,
\* the navigation stats, the matched path index or the approaching flag.
C1_StoppedHandlerHasNoEffect ==
    [][\A h \in pending :
          Resumes(h) /\ h.session = "stopped" =>
              UNCHANGED <<weatherAlert, navigationAlert, liveLocation,
                          navigationStats, closestPathIndex, closestPathIndexRef,
                          isApproachingStart, isApproachingStartRef>>]_vars

\* C2: the result of an emergency reroute that was in flight when
\* stopNavigation was called is discarded: its completion sets neither the
\* emergency route nor the alternative emergency route, raises no alert and
\* leaves the matched path index alone.
C2_StoppedRerouteIsDiscarded ==
    [][\A e \in emerg :
          Completes(e) /\ e.session = "stopped" =>
              UNCHANGED <<emergencyRoute, alternativeEmergencyRoute,
                          navigationAlert, closestPathIndex,
                          closestPathIndexRef>>]_vars

\* C4: fixes are handled one at a time in delivery order: a handler that
\* runs on in the session that started it is the handler of the most
\* recently delivered fix, so that the stats and the matched index last
\* written are those of that fix.
C4_HandlersRunInDeliveryOrder ==
    [][\A h \in pending :
          Resumes(h) /\ h.session = "live" => h.seq = fixSeq]_vars

\* The location of the fix whose handler runs in the step
HandledLocation ==
    IF fixSeq' # fixSeq THEN Val(liveLocation')
    ELSE (CHOOSE h \in pending : Resumes(h)).loc

\* The hazards for which the step raises a hazard alert
RaisedInStep ==
    {id \in AnimalIds : hazardAlertsRaised'[id] > hazardAlertsRaised[id]}

\* C5: within one navigation session, from start until stop, each hazard
\* raises at most one hazard alert, whatever the sequence of fixes; two
\* fixes within 2 km of the same hazard produce exactly one alert for it.
C5_OneAlertPerHazardPerSession ==
    \A id \in AnimalIds : hazardAlertsRaised[id] <= 1

\* The navigation alert is a hazard alert
IsHazardAlert(alert) == IsSome(alert) /\ Val(alert).animal \in AnimalIds

\* The step is the user's dismissal of the navigation alert, or ends or
\* replaces the session
DismissesOrStops ==
    lastOp' \in {"clearNavigationAlert", "stopNavigation",
                 "stopNavigation again", "startNavigation"}

\* C29: a hazard alert, once raised, is the navigation alert shown at the
\* end of the step that raised it, and stays the navigation alert shown
\* until the user dismisses it or the session stops: no 'navigation has
\* begun', 'signal lost' or 'rerouting' alert replaces it.
C29_HazardAlertStaysUntilDismissed ==
    [][/\ \A id \in RaisedInStep :
             navigationAlert' = Some(Alert("detected near your path", id))
       /\ IsHazardAlert(navigationAlert) /\ ~DismissesOrStops =>
             navigationAlert' = navigationAlert]_vars

\* A second fix was handled 2 km from hazard 1 with no alert showing, after
\* the one alert for hazard 1 had been raised and dismissed
C5_Witness ==
    /\ lastOp = "position fix"
    /\ fixSeq >= 2
    /\ pending = {}
    /\ liveLocation = Some(1)
    /\ Len(animalsNearRoute) > 0 /\ animalsNearRoute[1].current = 3
    /\ navigationAlert = None
    /\ shownAnimalAlertsRef = {1}
    /\ hazardAlertsRaised[1] = 1

\* C6: a hazard alert is never raised while a navigation alert is active;
\* one fix raises at most one hazard alert, that of the first hazard in
\* list order that is within the threshold and not yet alerted for; and a
\* hazard enters the suppression set only with its alert, so a hazard that
\* qualified while another alert was active stays eligible.
C6_HazardAlertOnlyWithoutActiveAlert ==
    [][/\ RaisedInStep # {} => navigationAlert = None
       /\ Cardinality(RaisedInStep) <= 1
       /\ \A id \in RaisedInStep :
             /\ hazardAlertsRaised'[id] = hazardAlertsRaised[id] + 1
             /\ \E i \in 1..Len(animalsNearRoute) :
                   /\ animalsNearRoute[i].id = id
                   /\ \A j \in 1..(i - 1) :
                         \/ calculateDistance(HandledLocation,
                                              animalsNearRoute[j].current) > 2
                         \/ animalsNearRoute[j].id \in shownAnimalAlertsRef
       /\ shownAnimalAlertsRef' \ shownAnimalAlertsRef \subseteq RaisedInStep]_vars

\* The handler of a fix 2 km from hazard 1 ran while the signal-lost alert
\* was showing: no hazard alert was raised and hazard 1 is not in the
\* suppression set
C6_Witness ==
    /\ lastOp = "weather arrives"
    /\ isNavigating
    /\ fixSeq = 1
    /\ pending = {}
    /\ liveLocation = Some(1)
    /\ Len(animalsNearRoute) > 0 /\ animalsNearRoute[1].current = 3
    /\ navigationAlert = Some(SIGNAL_LOST)
    /\ shownAnimalAlertsRef = {}
    /\ \A id \in AnimalIds : hazardAlertsRaised[id] = 0

\* The steps that reset the matched path index, and the steps in which a
\* position handler runs
ResetStep ==
    lastOp' \in {"startNavigation", "stopNavigation", "stopNavigation again",
                 "emergency route arrives"}
HandlerStep == lastOp' \in {"position fix", "weather arrives"}

\* C7 as stated: the matched path index never decreases from one processed
\* fix to the next; it moves backward only through an explicit reset
\* (start, stop, or a successful emergency reroute).
C7_IndexNeverDecreasesOnFix ==
    [][closestPathIndexRef' < closestPathIndexRef => ResetStep]_vars

\* The path of the route the position handler follows
ActivePath ==
    IF IsSome(emergencyRoute) THEN Val(emergencyRoute).path
    ELSE IF IsSome(safeRoute) THEN Val(safeRoute).path
    ELSE <<>>

\* C7, amended: on a path of at least 2 points a processed fix moves the
\* matched path index backward by at most the 20 points of the search's
\* back buffer; the index moves further back only through an explicit
\* reset (start, stop, or a successful emergency reroute), which sets it
\* to 0.
C7_IndexDecreaseWithinBackBuffer ==
    [][closestPathIndexRef' < closestPathIndexRef =>
          \/ ResetStep /\ closestPathIndexRef' = 0
          \/ /\ HandlerStep
             /\ Len(ActivePath) >= 2 =>
                   closestPathIndexRef' >= closestPathIndexRef - 20]_vars

\* After a fix at the end of the long route, a fix at its start was
\* processed: the matched index went back by the whole back buffer and no
\* further
C7_Witness ==
    /\ lastOp = "position fix"
    /\ isNavigating
    /\ liveLocation = Some(1)
    /\ IsSome(safeRoute) /\ Val(safeRoute).start = 1
    /\ closestPathIndexRef = TrackLen - 1 - BACK_BUFFER
    /\ closestPathIndexRef > 0

\* The step in which a position handler runs to its end
HandlerCompletes ==
    \/ fixSeq' # fixSeq /\ pending' = pending
    \/ lastOp' = "weather arrives" /\ \E h \in pending : Resumes(h)

\* C16: in a session on a straight path whose fixes advance monotonically
\* along it, the progress percent reported after a fix's handler is never
\* below the one reported before, lies within 0..100, and is 100, with
\* remaining distance 0 and ETA 0, for the fix at the path's last point.
C16_ProgressNeverDecreasesAndEndsAt100 ==
    [][HandlerCompletes /\ IsSome(navigationStats') =>
          LET stats == Val(navigationStats')
          IN  /\ stats.progressPercent \in 0..100
              /\ IsSome(navigationStats) =>
                    stats.progressPercent >= Val(navigationStats).progressPercent
              /\ Len(ActivePath) > 0
                    /\ HandledLocation = ActivePath[Len(ActivePath)] =>
                    /\ stats.progressPercent = 100
                    /\ stats.remainingKm10 = 0
                    /\ stats.etaMinutes = 0]_vars

\* The step in which a fix is delivered, and the step in which a position
\* handler runs (from its start or on from its weather request)
FixArrives == fixSeq' # fixSeq
HandlerRuns == FixArrives \/ \E h \in pending : Resumes(h)

\* C17: a position-stream failure raises the standing 'signal lost' alert
\* and leaves the subscription as it is; the fix that arrives while that
\* alert stands clears it; and an alert of another kind (hazard, rerouting,
\* navigation begun) is never cleared by a position handler: after the
\* handler ran, an alert is still showing.
C17_SignalLostClearedByNextFixOnly ==
    [][/\ lastOp' = "position error" =>
             /\ navigationAlert' = Some(SIGNAL_LOST)
             /\ UNCHANGED <<watches, watchIdRef, isNavigating>>
       /\ FixArrives /\ navigationAlert = Some(SIGNAL_LOST) =>
             navigationAlert' # Some(SIGNAL_LOST)
       /\ HandlerRuns /\ IsSome(navigationAlert)
             /\ navigationAlert # Some(SIGNAL_LOST) =>
             IsSome(navigationAlert')]_vars

\* A fix 2 km from hazard 1 was handled to the end, raised no alert for it
\* and left no alert showing: the handler found the 'signal lost' alert
\* standing, which holds the hazard alert back, and cleared it
C17_Witness ==
    /\ lastOp = "position fix"
    /\ isNavigating /\ watches # {}
    /\ fixSeq >= 2
    /\ pending = {}
    /\ liveLocation = Some(1)
    /\ Len(animalsNearRoute) > 0 /\ animalsNearRoute[1].current = 3
    /\ shownAnimalAlertsRef = {}
    /\ navigationAlert = None

\* The route the position handler follows
ActiveRoute == IF IsSome(emergencyRoute) THEN emergencyRoute ELSE safeRoute

\* The index (from 0) of the first of the path's points nearest to the
\* location
NearestPathIndex(location, path) ==
    CHOOSE i \in 0..(Len(path) - 1) :
        \A j \in 0..(Len(path) - 1) :
            \/ calculateDistance(location, path[i + 1])
                   < calculateDistance(location, path[j + 1])
            \/ /\ calculateDistance(location, path[i + 1])
                      = calculateDistance(location, path[j + 1])
               /\ i <= j

\* The fix handled in the step is one the claim calls approaching start
ApproachingStart ==
    /\ ~IsSome(emergencyRoute)
    /\ NearestPathIndex(HandledLocation, Val(ActiveRoute).path) = 0
    /\ 10 * calculateDistance(HandledLocation, Val(ActiveRoute).start)
          > APPROACHING_START_THRESHOLD_KM10

\* The step is a handler of the live session that runs to its end
HandlerEnds ==
    \/ FixArrives /\ pending' = pending
    \/ \E h \in pending : Resumes(h) /\ h.session = "live"

\* C28: after every fix processed to the end on an active route, the
\* matched index is an index of the active route's path and the reported
\* remaining distance and ETA are not negative, also when the planned route
\* was replaced by a calculateSafeRoute result while navigation is running.
C28_IndexInPathAndStatsNonNegative ==
    [][HandlerEnds /\ IsSome(ActiveRoute) =>
          /\ closestPathIndexRef' \in 0..(Len(Val(ActiveRoute).path) - 1)
          /\ closestPathIndex' \in 0..(Len(Val(ActiveRoute).path) - 1)
          /\ IsSome(navigationStats')
          /\ Val(navigationStats').remainingKm10 >= 0
          /\ Val(navigationStats').etaMinutes >= 0]_vars

\* C18: a handler that finds an active route leaves the approaching flag
\* set exactly when the nearest path index of its fix is 0, the fix is more
\* than 0.5 km from the route's start and no emergency route is set; in
\* that case the stats it reports are the total distance and duration of
\* the snapshot taken at the session's start with 0 % progress, and it
\* leaves the matched path index as it was.
C18_ApproachingStartTestAndFrozenStats ==
    [][HandlerCompletes /\ IsSome(ActiveRoute) =>
          /\ isApproachingStartRef' = ApproachingStart
          /\ isApproachingStart' = ApproachingStart
          /\ ApproachingStart =>
                /\ IsSome(initialRouteSnapshotRef)
                /\ navigationStats' =
                      Some([remainingKm10 |->
                               10 * Val(initialRouteSnapshotRef).distanceKm,
                            etaMinutes |->
                               Val(initialRouteSnapshotRef).durationMinutes,
                            progressPercent |-> 0])
                /\ UNCHANGED <<closestPathIndex, closestPathIndexRef>>]_vars

\* The step in which calculateRouteToNearestSafePlace sends its route
\* request, and the step in which that request returns a route
RerouteRequested ==
    lastOp' = "calculateRouteToNearestSafePlace" /\ routeStatus' = "loading"
RerouteSucceeds ==
    lastOp' = "emergency route arrives" /\ routeStatus' = "success"

\* C19: an emergency reroute asks for a route to the safe place nearest in
\* a straight line to the live position; when the request returns a route,
\* that route (from the position of the request to that place, by car)
\* becomes the emergency route, the matched index is 0 and the approaching
\* flag is cleared; every handler that runs while an emergency route is set
\* follows it (index and stats are those of the fix on the emergency
\* route) and classifies its fix as not approaching start; and the
\* approaching flag is never set while an emergency route is set.
C19_EmergencyRouteBecomesActiveRoute ==
    [][/\ RerouteRequested =>
             \E e \in emerg' :
                 /\ e.phase = 1
                 /\ e.loc = Val(liveLocation)
                 /\ \E i \in 1..Len(safePlaces) : safePlaces[i] = e.place
                 /\ \A i \in 1..Len(safePlaces) :
                        calculateDistance(e.loc, e.place.lat)
                            <= calculateDistance(e.loc, safePlaces[i].lat)
       /\ RerouteSucceeds =>
             /\ \E e \in emerg \ emerg' :
                    /\ e.phase = 1
                    /\ emergencyRoute' =
                          Some(ValhallaRoute(e.loc, e.place.lat, "car"))
             /\ closestPathIndex' = 0 /\ closestPathIndexRef' = 0
             /\ ~isApproachingStart' /\ ~isApproachingStartRef'
       /\ HandlerCompletes /\ IsSome(emergencyRoute) =>
             /\ closestPathIndexRef' =
                   NearestPathIndex(HandledLocation, Val(emergencyRoute).path)
             /\ closestPathIndex' = closestPathIndexRef'
             /\ navigationStats' =
                   Some(ProgressStats(Val(emergencyRoute), closestPathIndexRef'))
             /\ ~isApproachingStart' /\ ~isApproachingStartRef'
       /\ IsSome(emergencyRoute') =>
             ~isApproachingStart' /\ ~isApproachingStartRef']_vars

\* After a reroute from km 2 to the second place of the list, which is the
\* nearest, a fix 1 km before the start of the planned route was handled on
\* the emergency route
C19_Witness ==
    /\ lastOp = "position fix"
    /\ isNavigating
    /\ pending = {}
    /\ emergencyRoute = Some(ValhallaRoute(2, 3, "car"))
    /\ safeRoute = Some(PlannedRoute)
    /\ liveLocation = Some(0)
    /\ navigationStats = Some(ProgressStats(ValhallaRoute(2, 3, "car"), 0))
    /\ ~isApproachingStartRef

\* C20: the 'navigation has begun' alert appears only in a step in which a
\* position handler runs to its end and takes the session from approaching
\* start to not approaching, and it appears in every such step; a
\* successful emergency reroute clears the approaching flag and shows the
\* rerouting alert, so that neither it nor the fix after it raises the
\* 'navigation has begun' alert.
C20_NavigationBegunOnlyOnLeavingApproach ==
    [][/\ HandlerCompletes /\ isApproachingStart /\ ~isApproachingStart' =>
             navigationAlert' = Some(NAVIGATION_BEGUN)
       /\ navigationAlert # Some(NAVIGATION_BEGUN)
             /\ navigationAlert' = Some(NAVIGATION_BEGUN) =>
             HandlerCompletes /\ isApproachingStart /\ ~isApproachingStart'
       /\ RerouteSucceeds =>
             ~isApproachingStart' /\ navigationAlert' = Some(REROUTING)]_vars

\* The second fix, at the start of the planned route, was handled after a
\* fix 1 km before the start: the session left the approaching state and
\* the 'navigation has begun' alert shows
C20_Witness ==
    /\ lastOp = "position fix"
    /\ isNavigating
    /\ fixSeq = 2
    /\ pending = {}
    /\ ~IsSome(emergencyRoute)
    /\ liveLocation = Some(1)
    /\ ~isApproachingStart /\ ~isApproachingStartRef
    /\ navigationAlert = Some(NAVIGATION_BEGUN)

\* The step in which the first route request of a reroute call settles
RerouteSettles == lastOp' = "emergency route arrives"

\* C21: an emergency reroute called without a live position or without
\* safe places sets the error status and sends no route request; a reroute
\* whose route request settles without a route sets the error status; and
\* both leave the planned route, the emergency route, the matched index and
\* the approaching flag as they were.
C21_FailedRerouteChangesOnlyStatus ==
    [][/\ lastOp' = "calculateRouteToNearestSafePlace"
             /\ (~IsSome(liveLocation) \/ Len(safePlaces) = 0) =>
             /\ routeStatus' = "error"
             /\ UNCHANGED <<emerg, safeRoute, emergencyRoute, closestPathIndex,
                            closestPathIndexRef, isApproachingStart,
                            isApproachingStartRef>>
       /\ RerouteSettles /\ ~RerouteSucceeds =>
             /\ routeStatus' = "error"
             /\ UNCHANGED <<safeRoute, emergencyRoute, closestPathIndex,
                            closestPathIndexRef, isApproachingStart,
                            isApproachingStartRef>>
       /\ RerouteSucceeds => IsSome(emergencyRoute')]_vars

\* The route request of a reroute called while approaching the start
\* settled without a route: the status is error, the session is still
\* approaching and there is no emergency route
C21_Witness ==
    /\ lastOp = "emergency route arrives"
    /\ routeStatus = "error"
    /\ isNavigating
    /\ isApproachingStart /\ isApproachingStartRef
    /\ ~IsSome(emergencyRoute)
    /\ safeRoute = Some(PlannedRoute)
    /\ emerg = {}

\* C22: the request for the alternative emergency route is best-effort:
\* whatever its outcome, the step in which it settles leaves the emergency
\* route as it is and the route status as it was (success, as the reroute
\* set it).
C22_AlternativeFailureKeepsRerouteSuccessful ==
    [][lastOp' = "alternative emergency route arrives" =>
          UNCHANGED <<emergencyRoute, routeStatus>>]_vars

\* The step in which a position handler sends a weather request
WeatherFetched == FixArrives /\ pending' # pending

\* C23: a position handler sends a weather request exactly when more than
\* 5 minutes have passed since the time of the previous request, which it
\* then sets to the present time, and nothing else changes that time; a
\* severe code fetched sets the weather alert to the text of the code, a
\* calm code fetched leaves no weather alert, a failed fetch leaves the
\* weather alert as it was; and whatever the answer the handler goes on:
\* a hazard due for its alert is marked as alerted, and with an active
\* route the stats are those of the handled fix.
C23_WeatherFetchIntervalAndAlert ==
    [][/\ FixArrives =>
             (WeatherFetched <=>
                 now - lastWeatherCheckTimestampRef > WEATHER_CHECK_INTERVAL_MIN)
       /\ WeatherFetched => lastWeatherCheckTimestampRef' = now
       /\ lastWeatherCheckTimestampRef' # lastWeatherCheckTimestampRef =>
             WeatherFetched
       /\ \A code \in {Val(a) : a \in WeatherAnswers \ {None}} :
             WeatherArrivesWith({Some(code)}) =>
                 weatherAlert' = IF isWeatherSevere(code)
                                 THEN Some(getWeatherAlertText(code)) ELSE None
       /\ WeatherArrivesWith({None}) => weatherAlert' = weatherAlert
       /\ \A h \in pending :
             Resumes(h) =>
                /\ IsSome(HazardToAlert(h.loc)) =>
                      Val(HazardToAlert(h.loc)).id \in shownAnimalAlertsRef'
                /\ IsSome(ActiveRoute) =>
                      \/ /\ isApproachingStartRef'
                         /\ IsSome(navigationStats')
                         /\ Val(navigationStats').progressPercent = 0
                      \/ /\ ~isApproachingStartRef'
                         /\ navigationStats' =
                               Some(ProgressStats(Val(ActiveRoute),
                                                  closestPathIndexRef'))]_vars

\* The second weather request of the session, sent 6 minutes after the
\* first, fetched a severe code: the thunderstorm alert shows and the
\* handler went on to report the stats of its fix
C23_Witness ==
    /\ lastOp = "weather arrives"
    /\ isNavigating
    /\ fixSeq = 2
    /\ pending = {}
    /\ lastWeatherCheckTimestampRef = StartTime + WEATHER_CHECK_INTERVAL_MIN + 1
    /\ weatherAlert = Some(getWeatherAlertText(95))
    /\ liveLocation = Some(2)
    /\ navigationStats = Some(ProgressStats(PlannedRoute, 1))

\* C25: a startNavigation call with a valid route takes the snapshot of
\* that route, makes it the planned route, sets the matched index to 0,
\* empties the suppression set, clears the emergency and the alternative
\* emergency route and both alerts, and leaves exactly one watch
\* registered, the one watchIdRef names; at no time is more than one watch
\* registered; a call with a route that lacks start or end sets the error
\* status and changes nothing else.
C25_StartResetsSessionWithOneSubscription ==
    [][/\ lastOp' = "startNavigation" =>
             /\ \E route \in StartableRoutes :
                    /\ safeRoute' = Some(route)
                    /\ initialRouteSnapshotRef' =
                          Some([start |-> route.start, end |-> route.end,
                                mode |-> route.mode,
                                distanceKm |-> route.distanceKm,
                                durationMinutes |-> route.durationMinutes])
             /\ closestPathIndex' = 0 /\ closestPathIndexRef' = 0
             /\ shownAnimalAlertsRef' = {}
             /\ emergencyRoute' = None /\ alternativeEmergencyRoute' = None
             /\ navigationAlert' = None /\ weatherAlert' = None
             /\ isNavigating'
             /\ IsSome(watchIdRef') /\ watches' = {Val(watchIdRef')}
       /\ Cardinality(watches') <= 1
       /\ lastOp' = "startNavigation without route" =>
             /\ routeStatus' = "error"
             /\ UNCHANGED <<isNavigating, liveLocation, navigationStats,
                            navigationAlert, weatherAlert, animalsNearRoute,
                            closestPathIndex, isApproachingStart, emergencyRoute,
                            alternativeEmergencyRoute, safeRoute,
                            alternativeRoute, safePlaces, isApproachingStartRef,
                            watchIdRef, lastWeatherCheckTimestampRef,
                            closestPathIndexRef, initialRouteSnapshotRef,
                            shownAnimalAlertsRef, watches>>]_vars

\* The session was started a second time while it was running on an
\* emergency route, with the alternative emergency route as its route: one
\* watch is registered and the emergency route is gone
C25_Witness ==
    /\ lastOp = "startNavigation"
    /\ starts = 2
    /\ IsSome(liveLocation)
    /\ isNavigating
    /\ Cardinality(watches) = 1
    /\ safeRoute # Some(PlannedRoute)
    /\ ~IsSome(emergencyRoute)
    /\ closestPathIndexRef = 0

\* The session is idle
IdleSession ==
    /\ ~isNavigating
    /\ watchIdRef = None /\ watches = {}
    /\ navigationAlert = None /\ weatherAlert = None
    /\ safeRoute = None /\ alternativeRoute = None
    /\ emergencyRoute = None /\ alternativeEmergencyRoute = None
    /\ animalsNearRoute = <<>> /\ safePlaces = <<>>
    /\ shownAnimalAlertsRef = {}
    /\ closestPathIndex = 0 /\ closestPathIndexRef = 0
    /\ ~isApproachingStart /\ ~isApproachingStartRef
    /\ initialRouteSnapshotRef = None
    /\ liveLocation = None /\ navigationStats = None

\* C10: stopNavigation, called in any state of the session, leaves the
\* session idle: no position subscription, no navigation or weather alert,
\* no planned, alternative, emergency or alternative-emergency route, no
\* hazards or safe places, an empty suppression set, matched index 0,
\* approaching flag false, no snapshot; called again right away, it
\* changes nothing.
C10_StopLeavesSessionIdle ==
    [][lastOp' \in {"stopNavigation", "stopNavigation again"} =>
          /\ IdleSession'
          /\ lastOp \in {"stopNavigation", "stopNavigation again"} =>
                UNCHANGED <<navigationSessionVars, pending, emerg>>]_vars

\* stopNavigation was called while an emergency route was active and the
\* request for its alternative in flight, and then called again
C10_Witness ==
    /\ lastOp = "stopNavigation again"
    /\ IdleSession
    /\ fixSeq >= 1
    /\ \E e \in emerg : e.session = "stopped" /\ e.phase = 2

----------------------------------------------------------------------------
(* Properties of fetchJson *)

\* C3: fetchJson does not retry a client-class (4xx) response or a 2xx
\* response whose body fails to parse: the request that got such a response
\* is the last one of the call, no backoff wait follows it, and the call
\* has failed; when it is the first response, exactly one request was sent
\* and nothing was waited for.
C3_NoRetryOfClientOrParseFailure ==
    \A k \in 1..Len(fetchLog) :
        LET response == fetchLog[k]
            clientClass == response.status >= 400 /\ response.status <= 499
            unparseable == /\ ok(response)
                           /\ response.body # EmptyBody
                           /\ JSONparse(response.body) = None
        IN  ~response.rejected /\ (clientClass \/ unparseable) =>
                /\ Len(fetchLog) = k
                /\ Len(fetchWaits) = k - 1
                /\ fetchJsonCall.pc = "settled"
                /\ IsSome(fetchResult) /\ Val(fetchResult).kind = "thrown"

\* The request got a server-class (5xx) response or no response at all
ServerOrTransportFailure(outcome) ==
    \/ outcome.rejected
    \/ outcome.status >= 500 /\ outcome.status <= 599

\* C11: fetchJson sends at most 3 requests per call; a further request is
\* sent only after a 5xx response or a transport failure, and the waits
\* before the retries are 1 s, 2 s, 4 s; a 2xx response with a parseable or
\* empty body ends the call at once by returning the parsed body; and a call
\* whose 3 requests all failed ends by raising an error, never by returning
\* a value.
C11_AtMostThreeRequestsRetryOnlyAfterServerOrTransportFailure ==
    /\ Len(fetchLog) <= 3
    /\ \A k \in 2..Len(fetchLog) : ServerOrTransportFailure(fetchLog[k - 1])
    /\ \A k \in 1..Len(fetchWaits) : fetchWaits[k] = 1000 * 2 ^ (k - 1)
    /\ \A k \in 1..Len(fetchLog) :
          ErrorOf(fetchLog[k]) = None =>
              /\ k = Len(fetchLog)
              /\ fetchJsonCall.pc = "settled"
              /\ IsSome(fetchResult) /\ Val(fetchResult).kind = "returned"
    /\ /\ fetchJsonCall.pc = "settled"
       /\ Len(fetchLog) = 3
       /\ ErrorOf(fetchLog[3]) # None
       => IsSome(fetchResult) /\ Val(fetchResult).kind = "thrown"

----------------------------------------------------------------------------
(* Properties of getPathDataFromLocation *)

\* The number of consecutive samples without improvement after which the
\* search stops, and the path indices (from 0) the search examines when it
\* starts at index from and stops as soon as that many consecutive samples
\* have failed to improve the running minimum
K == INCREASING_THRESHOLD
ImprovesAt(location, path, from, k) ==
    \A m \in from..(k - 1) :
        calculateDistance(location, path[k + 1])
            < calculateDistance(location, path[m + 1])
StopsAt(location, path, from, j) ==
    /\ j - K + 1 >= from
    /\ \A k \in (j - K + 1)..j : ~ImprovesAt(location, path, from, k)
Examined(location, path, from) ==
    {i \in from..(Len(path) - 1) :
        \A j \in from..(i - 1) : ~StopsAt(location, path, from, j)}

\* C24: on a path of at least 2 points the search examines the indices
\* from max(0, searchStartIndex - 20) on and stops as soon as the running
\* minimum has failed to improve for 30 consecutive samples; it returns the
\* first examined index that attains the minimum distance of the examined
\* points, that distance, and the query point followed by the path from
\* that index to its end.  On a path of fewer than 2 points it returns
\* index 0, an empty remaining path and infinite distance.
C24_SearchWindowAndEarlyStop ==
    IsSome(pathCall.result) =>
        LET location == pathCall.userLocation
            path == pathCall.routePath
            result == Val(pathCall.result)
            examined == Examined(location, path,
                                 Max2(0, pathCall.searchStartIndex - BACK_BUFFER))
            index == result.closestPointIndex
        IN  IF Len(path) < 2
            THEN result = [remainingPath |-> <<>>, distanceToPathKm |-> Infinity,
                           closestPointIndex |-> 0]
            ELSE /\ index \in examined
                 /\ \A i \in examined :
                       \/ calculateDistance(location, path[index + 1])
                              < calculateDistance(location, path[i + 1])
                       \/ /\ calculateDistance(location, path[index + 1])
                                 = calculateDistance(location, path[i + 1])
                          /\ index <= i
                 /\ result.distanceToPathKm
                       = calculateDistance(location, path[index + 1])
                 /\ result.remainingPath
                       = <<location>> \o SubSeq(path, index + 1, Len(path))

----------------------------------------------------------------------------
(* Properties of calculateSafeRoute *)

\* The calls that have published their routes
Published == {c \in plans : c.pc \in {"places", "done"}}

\* C27: a call publishes the direct route unflagged and without avoidance
\* only when the predictor ran for it and returned no hazard that is not
\* excluded: a call never goes without the predictions of its own search
\* area because another prediction cycle was in progress when it was made.
C27_DirectUnflaggedOnlyAfterOwnPrediction ==
    \A c \in Published :
        Len(c.avoidancePolygons) = 0 /\ ~Val(c.finalRoute).isHighRisk =>
            c.predictorFailure # "prediction in progress"

\* The number of the calculateSafeRoute call issued last
LatestCall ==
    IF plans = {} THEN 0
    ELSE (CHOOSE c \in plans : \A d \in plans : d.call <= c.call).call

\* No call of calculateSafeRoute is under way
AllCallsEnded == \A c \in plans : c.pc \in {"done", "failed"}

\* What the call published or, when it failed, left behind
ResultOf(c) ==
    IF c.pc = "failed"
    THEN [routeStatus |-> "error"]
    ELSE [routeStatus |-> "success", safeRoute |-> c.finalRoute,
          alternativeRoute |-> c.alternative,
          animalsNearRoute |->
              NearbyAnimals(c.relevantPredictions, Val(c.finalRoute),
                            PlanRequest.radius)]

\* What the hook shows of the call's result
ShownFor(c) ==
    IF c.pc = "failed"
    THEN [routeStatus |-> routeStatus]
    ELSE [routeStatus |-> routeStatus, safeRoute |-> safeRoute,
          alternativeRoute |-> alternativeRoute,
          animalsNearRoute |-> animalsNearRoute]

\* C30: when two calls of calculateSafeRoute overlapped and both have
\* ended, the primary route, the alternative route, the hazards near the
\* route and the route status are those of the call issued last, in
\* whatever order the two ended.
C30_OverlappingCallsPublishLatest ==
    AllCallsEnded =>
        \A c \in plans : c.call = LatestCall => ShownFor(c) = ResultOf(c)

\* The step in which the route request of the mode probe ends
ProbeEnds(probe) ==
    probe \in probes /\ probe \notin probes' /\ lastOp' = "mode probe arrives"

\* C26: a mode probe that was started by a calculateSafeRoute call earlier
\* than the one issued last, which emptied the table, writes no entry into
\* the table of the other modes when its route request ends.
C26_StaleProbeWritesNoEntry ==
    [][\A probe \in probes :
          ProbeEnds(probe) /\ probe.call < LatestCall =>
              UNCHANGED otherModesInfo]_vars

\* C8: calculateSafeRoute makes the hazard-avoiding route the primary route
\* if and only if avoidance polygons exist, the avoiding request returned a
\* route, and that route's duration is below 2.5 times the direct duration
\* and below the direct duration plus 120 minutes; in every other
\* successful outcome the direct route is primary and the alternative is
\* whatever the avoiding request returned, possibly nothing.
C8_AvoidingRoutePrimaryIffWorthIt ==
    \A c \in Published :
        LET direct == Val(c.directRoute)
            worthIt ==
                /\ Len(c.avoidancePolygons) > 0
                /\ IsSome(c.safeAlternative)
                /\ 2 * Val(c.safeAlternative).durationMinutes < 5 * direct.durationMinutes
                /\ Val(c.safeAlternative).durationMinutes < direct.durationMinutes + 120
        IN  /\ safeRoute = c.finalRoute
            /\ alternativeRoute = c.alternative
            /\ IF worthIt
               THEN c.finalRoute = c.safeAlternative
               ELSE /\ [Val(c.finalRoute) EXCEPT !.isHighRisk = FALSE] = direct
                    /\ c.alternative = c.safeAlternative

\* A call took the avoiding route of 219 minutes over the direct route of
\* 100 minutes, just inside both thresholds
C8_Witness ==
    \E c \in Published :
        /\ c.pc = "done"
        /\ Len(c.avoidancePolygons) > 0
        /\ safeRoute = c.safeAlternative
        /\ Val(c.safeAlternative).durationMinutes = 219
        /\ Val(c.directRoute).durationMinutes = 100
        /\ IsSome(alternativeRoute)

\* C9: in every successful planning outcome the high-risk flag sits on the
\* direct route exactly when avoidance polygons existed: without polygons
\* the direct route is primary, unflagged, and there is no alternative; with
\* polygons the direct route is flagged whether it is primary or
\* alternative, and the avoiding route is never flagged.
C9_HighRiskFlagOnDirectIffPolygons ==
    \A c \in Published :
        LET direct == Val(c.directRoute)
            flagged == [direct EXCEPT !.isHighRisk = TRUE]
        IN  /\ ~direct.isHighRisk
            /\ IF Len(c.avoidancePolygons) = 0
               THEN /\ safeRoute = Some(direct)
                    /\ alternativeRoute = None
               ELSE \/ /\ safeRoute = Some(flagged)
                       /\ alternativeRoute = c.safeAlternative
                       /\ IsSome(alternativeRoute) => ~Val(alternativeRoute).isHighRisk
                    \/ /\ alternativeRoute = Some(flagged)
                       /\ safeRoute = c.safeAlternative
                       /\ ~Val(safeRoute).isHighRisk

\* A call found polygons and an avoiding route that was not worth taking:
\* the flagged direct route is primary, the avoiding route the alternative
C9_Witness ==
    \E c \in Published :
        /\ Len(c.avoidancePolygons) > 0
        /\ IsSome(c.safeAlternative)
        /\ alternativeRoute = c.safeAlternative
        /\ IsSome(safeRoute) /\ Val(safeRoute).isHighRisk
        /\ routeStatus = "success"

\* C12: when the hazard predictor fails internally during route planning
\* (the batch computation is unavailable, or a lookup inside the prediction
\* cycle fails and stops the cycle), the planner gets an empty prediction
\* set and no error: the planning call does not fail at the predictor, it
\* builds no avoidance polygon, and when it publishes, it publishes the
\* direct route, unflagged and without an alternative.
C12_PredictorFailureYieldsNoPredictions ==
    \A c \in plans :
        c.predictorFailure # "none" =>
            /\ c.failedAt # "predictions"
            /\ c.relevantPredictions = <<>>
            /\ c.pc \in {"places", "done"} =>
                  /\ c.avoidancePolygons = <<>>
                  /\ safeRoute = c.directRoute
                  /\ alternativeRoute = None

\* C15: when the direct-route request fails or returns no route, planning
\* aborts with the error status and yields no route: the call returns
\* nothing, and no primary route, of this call or of an earlier one, is
\* left published as the current route.
C15_FailedDirectRequestLeavesNoRoute ==
    \A c \in plans :
        c.pc = "failed" /\ c.failedAt = "direct" =>
            /\ routeStatus = "error"
            /\ c.finalRoute = None
            /\ safeRoute = None

----------------------------------------------------------------------------
(* Properties of getSafeNavigationRoute *)

\* The route the routing service reported to the call, None where fetchJson
\* threw or the answer holds no route
ReportedRoute ==
    IF IsSome(fetchResult) /\ Val(fetchResult).kind = "returned"
    THEN fetchValhallaRoute(Val(fetchResult).json, routeCall.start, routeCall.end,
                            routeCall.mode).route
    ELSE None

\* The implied average speed of the route, 60 * distanceKm / durationMinutes
\* km/h, lies inside the band of the route's mode
SpeedInBand(route) ==
    /\ minSpeed(route.mode) * route.durationMinutes <= 60 * route.distanceKm
    /\ 60 * route.distanceKm <= maxSpeed(route.mode) * route.durationMinutes

\* C13: getSafeNavigationRoute returns a route only if the route's distance
\* is at most 7 times the straight-line distance of start and end and its
\* implied average speed lies inside the band of its mode (car [10,120],
\* bus [10,100], bike [8,35], walk [2,8] km/h); every reported route with
\* an implied speed outside the band, the route of zero duration over a
\* non-zero distance included, is rejected: the call returns null.
C13_ReturnedRouteIsPlausible ==
    routeCall.pc = "settled" =>
        /\ routeCall.result.kind = "route" =>
              /\ IsSome(ReportedRoute)
              /\ routeCall.result.route = ReportedRoute
              /\ Val(ReportedRoute).distanceKm
                    <= 7 * calculateDistance(routeCall.start, routeCall.end)
              /\ SpeedInBand(Val(ReportedRoute))
        /\ IsSome(ReportedRoute) /\ ~SpeedInBand(Val(ReportedRoute)) =>
              routeCall.result.kind = "null"

\* C14: the route broker keeps the two failure kinds apart: a call whose
\* request failed (fetchJson raised its error after its retries) ends in an
\* error, a call whose request was answered (fetchJson returned the parsed
\* body) never does, and an answered call whose route is missing or fails
\* the plausibility test returns null.
C14_RequestFailureRaisesMissingRouteReturnsNull ==
    routeCall.pc = "settled" =>
        LET failed == Val(fetchResult).kind = "thrown"
            answered == Val(fetchResult).kind = "returned"
        IN  /\ failed => routeCall.result.kind = "thrown"
            /\ answered => routeCall.result.kind # "thrown"
            /\ /\ answered
               /\ \/ ReportedRoute = None
                  \/ ~isRouteReasonable(Val(ReportedRoute), routeCall.start,
                                        routeCall.end)
               => routeCall.result.kind = "null"

============================================================================
